---- MODULE Spec2Model ----
(***************************************************************************)
(* Model of the QA coverage pipeline: field resolution, value mappers,     *)
(* status precedence, the process() orchestrator and the metrics           *)
(* reductions (src/src/transformer.py, src/src/metrics.py,                 *)
(* src/src/config.py).                                                     *)
(***************************************************************************)
EXTENDS Integers, Sequences, FiniteSets, TLC

VARIABLES
    row,            \* the pd.Series handed to determine_final_status
    final_status,   \* what determine_final_status returned ("" before the call)
    df,             \* the raw-case DataFrame: [columns, rows]
    bu_name,        \* business unit passed to process
    field_type,     \* category asked of find_field
    found,          \* what find_field returned
    summary,        \* DataFrame returned by process
    report,         \* which st.error message process showed ("" when none)
    metrics,        \* results of the four metrics functions
    raw_value,      \* the raw value handed to a value mapper
    mapper,         \* which value mapper is called
    mapped,         \* outcome of the mapper call: value returned or exception raised
    epic_pivot,     \* the epic pivot held by the report
    search,         \* text of the epic search box
    filtered,       \* what filter_epic_by_search returned
    api,            \* whether get_api_client returned a client
    source,         \* the cases the TestRail suite holds, in its order
    offset,         \* offset of the next page request
    all_cases,      \* the cases collected so far
    requests,       \* offsets of the page requests made, in order
    raw_df,         \* outcome of fetch_data_recursive
    fetch_error,    \* the error fetch_data_recursive logged
    session_state,  \* st.session_state: data_loaded, df_summary, current_bu
    selected_bu,    \* value of the business unit selector in the last rerun
    update_clicked, \* whether the update button was clicked in the last rerun
    rendered,       \* what the last rerun rendered
    load_report,    \* the error load_data showed in the last rerun
    pc              \* position of the run

vars == <<row, final_status, df, bu_name, field_type, found, summary, report, metrics,
          raw_value, mapper, mapped, epic_pivot, search, filtered,
          api, source, offset, all_cases, requests, raw_df, fetch_error,
          session_state, selected_bu, update_clicked, rendered, load_report, pc>>

fetch_vars == <<api, source, offset, all_cases, requests, raw_df, fetch_error>>
session_vars == <<session_state, selected_bu, update_clicked, rendered, load_report>>

(***************************************************************************)
(* Bounds                                                                  *)
(***************************************************************************)
MaxCases == 2       \* raw cases in a batch
MaxCols == 3        \* columns of a schema handed to find_field
MaxRows == 2        \* rows of a summary table handed to the metrics
MaxCount == 2       \* largest Count of a summary row
MaxElems == 2       \* elements of a multi-valued raw value
MaxEpics == 2       \* rows of an epic pivot handed to the search filter
MaxSource == 501    \* cases a TestRail suite holds

(***************************************************************************)
(* Python values                                                           *)
(***************************************************************************)
\* Python's None as returned by the Optional[str] mappers and find_field.
None == "<None>"

\* A raw cell of the DataFrame: None/NaN, an int, a float n.f, a str, a list.
NullVal == [k |-> "null", n |-> 0, f |-> 0, s |-> "", l |-> <<>>]
IntVal(n) == [k |-> "int", n |-> n, f |-> 0, s |-> "", l |-> <<>>]
FloatVal(n, f) == [k |-> "float", n |-> n, f |-> f, s |-> "", l |-> <<>>]
StrVal(s) == [k |-> "str", n |-> 0, f |-> 0, s |-> s, l |-> <<>>]
ListVal(l) == [k |-> "list", n |-> 0, f |-> 0, s |-> "", l |-> l]

\* Outcome of a call: the value returned, or the exception that escaped it.
Return(v) == [exc |-> "", val |-> v]
Raise(e) == [exc |-> e, val |-> None]

Range(f) == {f[x] : x \in DOMAIN f}

\* a pd.Series without entries
NoRow == <<>>

(***************************************************************************)
(* str operations                                                          *)
(***************************************************************************)
Digits == "0123456789"
UpperCase == "ABCDEFGHIJKLMNOPQRSTUVWXYZ"
LowerCase == "abcdefghijklmnopqrstuvwxyz"
\* The characters used, in code point order (Python compares str by code point).
CodePoints == " (),-./0123456789ABCDEFGHIJKLMNOPQRSTUVWXYZ[]_abcdefghijklmnopqrstuvwxyz"

CharAt(s, i) == SubSeq(s, i, i)
IndexIn(c, s) == IF \E i \in 1..Len(s) : CharAt(s, i) = c
                 THEN CHOOSE i \in 1..Len(s) : CharAt(s, i) = c
                 ELSE 0
ord(c) == IndexIn(c, CodePoints)

\* str.__lt__
RECURSIVE StrLess(_, _)
StrLess(a, b) ==
    IF Len(b) = 0 THEN FALSE
    ELSE IF Len(a) = 0 THEN TRUE
    ELSE IF CharAt(a, 1) = CharAt(b, 1)
         THEN StrLess(SubSeq(a, 2, Len(a)), SubSeq(b, 2, Len(b)))
         ELSE ord(CharAt(a, 1)) < ord(CharAt(b, 1))

\* str.lower()
RECURSIVE lower(_)
lower(s) ==
    IF Len(s) = 0 THEN ""
    ELSE LET c == CharAt(s, 1)
             i == IndexIn(c, UpperCase)
         IN (IF i > 0 THEN CharAt(LowerCase, i) ELSE c) \o lower(SubSeq(s, 2, Len(s)))

\* str.strip()
RECURSIVE strip(_)
strip(s) ==
    IF Len(s) = 0 THEN ""
    ELSE IF CharAt(s, 1) = " " THEN strip(SubSeq(s, 2, Len(s)))
    ELSE IF CharAt(s, Len(s)) = " " THEN strip(SubSeq(s, 1, Len(s) - 1))
    ELSE s

\* sub in s
Contains(s, sub) ==
    \E i \in 1..(Len(s) - Len(sub) + 1) : SubSeq(s, i, i + Len(sub) - 1) = sub

IsDigits(s) == \A i \in 1..Len(s) : IndexIn(CharAt(s, i), Digits) > 0

\* the value of a digit string (0 for the empty string)
RECURSIVE DigitsValue(_)
DigitsValue(s) ==
    IF Len(s) = 0 THEN 0
    ELSE 10 * DigitsValue(SubSeq(s, 1, Len(s) - 1)) + (IndexIn(CharAt(s, Len(s)), Digits) - 1)

\* str(n) of a non-negative int
RECURSIVE IntToStr(_)
IntToStr(n) ==
    IF n < 10 THEN CharAt(Digits, n + 1)
    ELSE IntToStr(n \div 10) \o CharAt(Digits, (n % 10) + 1)

\* str(val) of a scalar cell
str(val) ==
    CASE val.k = "null" -> "None"
      [] val.k = "int" -> IntToStr(val.n)
      [] val.k = "float" -> IntToStr(val.n) \o "." \o IntToStr(val.f)
      [] OTHER -> val.s

\* float(s) of a str: digits, digits.digits, inf/infinity/nan; anything else
\* is a ValueError.  kind is "num", "inf", "nan" or "err"; n the integer part.
ParseFloat(s0) ==
    LET s == strip(s0)
        dot == IndexIn(".", s)
        ip == IF dot = 0 THEN s ELSE SubSeq(s, 1, dot - 1)
        fp == IF dot = 0 THEN "" ELSE SubSeq(s, dot + 1, Len(s))
    IN IF lower(s) \in {"inf", "infinity"} THEN [kind |-> "inf", n |-> 0]
       ELSE IF lower(s) = "nan" THEN [kind |-> "nan", n |-> 0]
       ELSE IF IsDigits(ip) /\ IsDigits(fp) /\ Len(ip) + Len(fp) > 0
            THEN [kind |-> "num", n |-> DigitsValue(ip)]
       ELSE [kind |-> "err", n |-> 0]

\* int(float(val)): truncation towards zero; float() of a list or None is a
\* TypeError, of an unparsable str a ValueError; int() of nan is a ValueError
\* and of an infinity an OverflowError.
IntOfFloat(val) ==
    CASE val.k = "int" -> Return(val.n)
      [] val.k = "float" -> Return(val.n)
      [] val.k = "str" ->
            LET p == ParseFloat(val.s)
            IN CASE p.kind = "num" -> Return(p.n)
                 [] p.kind = "inf" -> Raise("OverflowError")
                 [] OTHER -> Raise("ValueError")
      [] OTHER -> Raise("TypeError")

\* `if pd.isna(val):` - pd.isna of a list is an array, whose truth value is
\* that of its only element, and a ValueError when it has not exactly one.
IsNaTest(val) ==
    CASE val.k = "null" -> Return(TRUE)
      [] val.k = "list" -> IF Len(val.l) = 1 THEN Return(val.l[1].k = "null")
                           ELSE Raise("ValueError")
      [] OTHER -> Return(FALSE)

(***************************************************************************)
(* Configuration tables (src/src/config.py)                                *)
(***************************************************************************)
COUNTRY_MAPPINGS ==
    [b \in {"Marionnaud", "Drogas"} |->
        IF b = "Marionnaud"
        THEN ("3" :> "MRN") @@ ("9" :> "MFR") @@ ("10" :> "MCH") @@ ("11" :> "MAT")
             @@ ("12" :> "MRO") @@ ("13" :> "MIT") @@ ("14" :> "MCZ") @@ ("15" :> "MSK")
             @@ ("16" :> "MHU") @@ ("22" :> "MCH_SPR") @@ ("23" :> "MAT_SPR")
             @@ ("24" :> "MRO_SPR") @@ ("25" :> "MIT_SPR") @@ ("26" :> "MCZ_SPR")
             @@ ("27" :> "MSK_SPR") @@ ("28" :> "MHU_SPR")
        ELSE ("5" :> "LT") @@ ("6" :> "LV") @@ ("7" :> "RU")]

PRIORITY_MAPPINGS == (3 :> "High") @@ (4 :> "Highest") @@ (5 :> "Medium")

DEVICE_MAPPINGS == (1 :> "Desktop") @@ (2 :> "Mobile") @@ (3 :> "Both")

JAVA_STATUS_MAPPINGS ==
    (1 :> "Not Automated") @@ (2 :> "To Be Automated") @@ (3 :> "Automated")
    @@ (4 :> "N/A") @@ (5 :> "To Be Automated") @@ (6 :> "To Be Automated")
    @@ (7 :> "Not Automated") @@ (8 :> "Automated") @@ (9 :> "Automated")
    @@ (10 :> "To Be Automated")

TESTIM_STATUS_MAPPINGS ==
    (1 :> "Not Automated") @@ (2 :> "To Be Automated") @@ (3 :> "Automated")
    @@ (4 :> "N/A") @@ (5 :> "To Be Automated") @@ (6 :> "To Be Automated")
    @@ (7 :> "Not Automated") @@ (8 :> "Automated") @@ (9 :> "Automated")

FieldTypes == {"java", "testim_desktop", "testim_mobile", "epic", "device", "country", "priority"}

FIELD_VARIATIONS ==
    [t \in FieldTypes |->
        CASE t = "java" -> <<"custom_automation_status", "automation_status">>
          [] t = "testim_desktop" -> <<"custom_case_automation_status_testim",
                                       "custom_automation_status_testim_desktop_view",
                                       "automation_status_testim_desktop">>
          [] t = "testim_mobile" -> <<"custom_case_automation_status_mobile_view",
                                      "custom_automation_status_testim_mobile_view",
                                      "automation_status_testim_mobile">>
          [] t = "epic" -> <<"custom_epic_reference", "custom_epicreference", "custom_epic", "refs">>
          [] t = "device" -> <<"custom_device", "device", "custom_devices">>
          [] t = "country" -> <<"multi_countries", "custom_multi_countries", "countries">>
          [] t = "priority" -> <<"priority_id", "priority", "custom_priority">>]

\* dict.get(key, default)
Get(mapping, key, default) == IF key \in DOMAIN mapping THEN mapping[key] ELSE default

(***************************************************************************)
(* Status resolver (src/src/transformer.py)                                *)
(***************************************************************************)
Statuses == {"Not Automated", "To Be Automated", "Automated", "N/A"}

FinalStatuses == {"Automated - Testim Both", "Automated - Testim Desktop",
                  "Automated - Testim Mobile", "Automated - Java",
                  "N/A", "To Be Automated", "Not Automated"}

\* pd.Series.get(key): None when the key is not in the row
RowGet(r, key) == IF key \in DOMAIN r THEN r[key] ELSE None

\* a resolver that tests To Be Automated before N/A
determine_final_status_tba_first(r) ==
    LET java_status == RowGet(r, "Java_Status")
        testim_desktop == RowGet(r, "Testim_Desktop_Status")
        testim_mobile == RowGet(r, "Testim_Mobile_Status")
        testim_desktop_automated == testim_desktop = "Automated"
        testim_mobile_automated == testim_mobile = "Automated"
        java_automated == java_status = "Automated"
    IN IF testim_desktop_automated /\ testim_mobile_automated THEN "Automated - Testim Both"
       ELSE IF testim_desktop_automated THEN "Automated - Testim Desktop"
       ELSE IF testim_mobile_automated THEN "Automated - Testim Mobile"
       ELSE IF java_automated THEN "Automated - Java"
       ELSE IF java_status = "To Be Automated" \/ testim_desktop = "To Be Automated"
               \/ testim_mobile = "To Be Automated" THEN "To Be Automated"
       ELSE IF java_status = "N/A" \/ testim_desktop = "N/A" \/ testim_mobile = "N/A" THEN "N/A"
       ELSE "Not Automated"

\* a resolver in which the primary framework wins over a single Testim status
determine_final_status_java_first(r) ==
    LET java_status == RowGet(r, "Java_Status")
        testim_desktop == RowGet(r, "Testim_Desktop_Status")
        testim_mobile == RowGet(r, "Testim_Mobile_Status")
        testim_desktop_automated == testim_desktop = "Automated"
        testim_mobile_automated == testim_mobile = "Automated"
        java_automated == java_status = "Automated"
    IN IF testim_desktop_automated /\ testim_mobile_automated THEN "Automated - Testim Both"
       ELSE IF java_automated THEN "Automated - Java"
       ELSE IF testim_desktop_automated THEN "Automated - Testim Desktop"
       ELSE IF testim_mobile_automated THEN "Automated - Testim Mobile"
       ELSE IF java_status = "N/A" \/ testim_desktop = "N/A" \/ testim_mobile = "N/A" THEN "N/A"
       ELSE IF java_status = "To Be Automated" \/ testim_desktop = "To Be Automated"
               \/ testim_mobile = "To Be Automated" THEN "To Be Automated"
       ELSE "Not Automated"

\* a resolver whose rules 2 and 3 give the case to Java
determine_final_status_java_with_testim(r) ==
    LET java_status == RowGet(r, "Java_Status")
        testim_desktop == RowGet(r, "Testim_Desktop_Status")
        testim_mobile == RowGet(r, "Testim_Mobile_Status")
        testim_desktop_automated == testim_desktop = "Automated"
        testim_mobile_automated == testim_mobile = "Automated"
        java_automated == java_status = "Automated"
    IN IF testim_desktop_automated /\ testim_mobile_automated THEN "Automated - Testim Both"
       ELSE IF testim_desktop_automated /\ java_automated THEN "Automated - Java"
       ELSE IF testim_mobile_automated /\ java_automated THEN "Automated - Java"
       ELSE IF testim_desktop_automated THEN "Automated - Testim Desktop"
       ELSE IF testim_mobile_automated THEN "Automated - Testim Mobile"
       ELSE IF java_automated THEN "Automated - Java"
       ELSE IF java_status = "N/A" \/ testim_desktop = "N/A" \/ testim_mobile = "N/A" THEN "N/A"
       ELSE IF java_status = "To Be Automated" \/ testim_desktop = "To Be Automated"
               \/ testim_mobile = "To Be Automated" THEN "To Be Automated"
       ELSE "Not Automated"

determine_final_status(r) ==
    LET java_status == RowGet(r, "Java_Status")
        testim_desktop == RowGet(r, "Testim_Desktop_Status")
        testim_mobile == RowGet(r, "Testim_Mobile_Status")
        testim_desktop_automated == testim_desktop = "Automated"
        testim_mobile_automated == testim_mobile = "Automated"
        java_automated == java_status = "Automated"
    IN IF testim_desktop_automated /\ testim_mobile_automated THEN "Automated - Testim Both"
       ELSE IF testim_desktop_automated /\ java_automated THEN "Automated - Testim Desktop"
       ELSE IF testim_mobile_automated /\ java_automated THEN "Automated - Testim Mobile"
       ELSE IF testim_desktop_automated THEN "Automated - Testim Desktop"
       ELSE IF testim_mobile_automated THEN "Automated - Testim Mobile"
       ELSE IF java_automated THEN "Automated - Java"
       ELSE IF java_status = "N/A" \/ testim_desktop = "N/A" \/ testim_mobile = "N/A" THEN "N/A"
       ELSE IF java_status = "To Be Automated" \/ testim_desktop = "To Be Automated"
               \/ testim_mobile = "To Be Automated" THEN "To Be Automated"
       ELSE "Not Automated"

(***************************************************************************)
(* Value mappers (src/src/transformer.py)                                  *)
(***************************************************************************)
\* `val in mapping` for a dict keyed by int: 1.0 hashes and compares as 1
InIntDict(val, mapping) ==
    \/ val.k = "int" /\ val.n \in DOMAIN mapping
    \/ val.k = "float" /\ val.f = 0 /\ val.n \in DOMAIN mapping

_map_field_value(val, mapping, default) ==
    LET na == IsNaTest(val)
        val_int == IntOfFloat(val)
    IN IF na.exc # "" THEN Raise(na.exc)
       ELSE IF na.val THEN Return(default)
       ELSE IF val.k = "list" THEN Raise("TypeError")
       ELSE IF InIntDict(val, mapping) THEN Return(mapping[val.n])
       ELSE IF val_int.exc = "" THEN Return(Get(mapping, val_int.val, default))
       ELSE IF val_int.exc \in {"ValueError", "TypeError"} THEN Return(default)
       ELSE Raise(val_int.exc)

\* repr(v) of a list element, str(list)
repr(v) == IF v.k = "str" THEN "'" \o v.s \o "'" ELSE str(v)

RECURSIVE Join(_, _)
Join(sep, parts) ==
    IF Len(parts) = 0 THEN ""
    ELSE IF Len(parts) = 1 THEN parts[1]
    ELSE parts[1] \o sep \o Join(sep, Tail(parts))

StrOf(val) ==
    IF val.k = "list"
    THEN "[" \o Join(", ", [i \in DOMAIN val.l |-> repr(val.l[i])]) \o "]"
    ELSE str(val)

map_country_id(val, bu) ==
    LET country_map == Get(COUNTRY_MAPPINGS, bu, <<>>)
        val_str == strip(str(val))
        p == ParseFloat(val_str)
        val_key == IntToStr(p.n)
    IN IF val.k = "list"
       THEN IF Len(val.l) = 0 THEN Return("Unknown")
            ELSE Return(Join(", ", [i \in DOMAIN val.l |->
                        Get(country_map, strip(str(val.l[i])), "ID_" \o str(val.l[i]))]))
       ELSE IF val.k = "null" THEN Return("Unknown")
       ELSE IF val_str \in DOMAIN country_map THEN Return(country_map[val_str])
       ELSE IF p.kind = "inf" THEN Raise("OverflowError")
       ELSE IF p.kind = "num" /\ val_key \in DOMAIN country_map THEN Return(country_map[val_key])
       ELSE Return("ID_" \o val_str)

map_priority(val) ==
    LET na == IsNaTest(val)
        val_int == IntOfFloat(val)
        val_str == lower(strip(StrOf(val)))
    IN IF na.exc # "" THEN Raise(na.exc)
       ELSE IF na.val THEN Return("Unknown")
       ELSE IF val_int.exc \in {"ValueError", "TypeError"}
            THEN IF Contains(val_str, "highest") THEN Return("Highest")
                 ELSE IF Contains(val_str, "high") THEN Return("High")
                 ELSE IF Contains(val_str, "medium") THEN Return("Medium")
                 ELSE Return("Unknown")
       ELSE IF val_int.exc # "" THEN Raise(val_int.exc)
       ELSE Return(Get(PRIORITY_MAPPINGS, val_int.val, "Unknown"))

\* a device mapper whose default is not one of the three devices
map_device_status_unknown_default(val) == _map_field_value(val, DEVICE_MAPPINGS, "Unknown")

map_device_status(val) == _map_field_value(val, DEVICE_MAPPINGS, "Both")

map_automation_status_java(val) ==
    LET na == IsNaTest(val)
        val_int == IntOfFloat(val)
    IN IF na.exc # "" THEN Raise(na.exc)
       ELSE IF na.val THEN Return(None)
       ELSE IF val_int.exc = "" THEN Return(Get(JAVA_STATUS_MAPPINGS, val_int.val, None))
       ELSE IF val_int.exc \in {"ValueError", "TypeError"} THEN Return(None)
       ELSE Raise(val_int.exc)

\* the Testim mapper reading the table of the Java codes
map_automation_status_testim_java_table(val) ==
    LET na == IsNaTest(val)
        val_int == IntOfFloat(val)
    IN IF na.exc # "" THEN Raise(na.exc)
       ELSE IF na.val THEN Return(None)
       ELSE IF val_int.exc = "" THEN Return(Get(JAVA_STATUS_MAPPINGS, val_int.val, None))
       ELSE IF val_int.exc \in {"ValueError", "TypeError"} THEN Return(None)
       ELSE Raise(val_int.exc)

\* map_automation_status_testim: as the Java mapper, over the 9-entry table
map_automation_status_testim(val) ==
    LET na == IsNaTest(val)
        val_int == IntOfFloat(val)
    IN IF na.exc # "" THEN Raise(na.exc)
       ELSE IF na.val THEN Return(None)
       ELSE IF val_int.exc = "" THEN Return(Get(TESTIM_STATUS_MAPPINGS, val_int.val, None))
       ELSE IF val_int.exc \in {"ValueError", "TypeError"} THEN Return(None)
       ELSE Raise(val_int.exc)

(***************************************************************************)
(* Field resolver (src/src/transformer.py)                                 *)
(***************************************************************************)
\* A DataFrame: its column index and its rows (each a mapping column -> cell).
DataFrame(columns, rows) == [columns |-> columns, rows |-> rows]

\* pd.DataFrame()
EmptyDataFrame == DataFrame(<<>>, <<>>)

\* df.empty: an axis of length 0
IsEmpty(d) == Len(d.columns) = 0 \/ Len(d.rows) = 0

\* the `for field in possible_fields` loop
RECURSIVE FirstPresent(_, _)
FirstPresent(possible_fields, columns) ==
    IF Len(possible_fields) = 0 THEN None
    ELSE IF Head(possible_fields) \in Range(columns) THEN Head(possible_fields)
    ELSE FirstPresent(Tail(possible_fields), columns)

\* a resolver that scans the schema instead of the alias list
RECURSIVE FirstAliasColumn(_, _)
FirstAliasColumn(possible_fields, columns) ==
    IF Len(columns) = 0 THEN None
    ELSE IF Head(columns) \in Range(possible_fields) THEN Head(columns)
    ELSE FirstAliasColumn(possible_fields, Tail(columns))

find_field_schema_order(d, t) == FirstAliasColumn(Get(FIELD_VARIATIONS, t, <<>>), d.columns)

find_field(d, t) == FirstPresent(Get(FIELD_VARIATIONS, t, <<>>), d.columns)

(***************************************************************************)
(* Pipeline orchestrator (src/src/transformer.py, process)                 *)
(***************************************************************************)
\* State of the try block: the exception that left it ("" while none did)
\* and the DataFrame as mutated so far.
Step(exc, d) == [exc |-> exc, df |-> d]

Min(S) == CHOOSE x \in S : \A y \in S : x <= y

\* df[name] = values (\o makes the rows an explicit sequence)
SetColumn(d, name, values) ==
    DataFrame(IF name \in Range(d.columns) THEN d.columns ELSE Append(d.columns, name),
              [i \in DOMAIN d.rows |-> (name :> values[i]) @@ d.rows[i]] \o <<>>)

\* df[epic_field].fillna('No Epic Assigned').astype(str)
EpicOf(val) == Return(IF val.k = "null" THEN "No Epic Assigned" ELSE StrOf(val))

\* the function a column is mapped with, applied to one cell
Apply(f, val, bu) ==
    CASE f = "map_automation_status_java" -> map_automation_status_java(val)
      [] f = "map_automation_status_testim" -> map_automation_status_testim(val)
      [] f = "map_device_status" -> map_device_status(val)
      [] f = "map_country_id" -> map_country_id(val, bu)
      [] f = "map_priority" -> map_priority(val)
      [] f = "fillna" -> EpicOf(val)

\* df[name] = outs, the outcomes of f on the cells of a column: the first
\* exception f raised leaves the try block and the column is not assigned.
AssignOutcomes(d, name, outs) ==
    IF \E i \in DOMAIN outs : outs[i].exc # ""
    THEN Step(outs[Min({i \in DOMAIN outs : outs[i].exc # ""})].exc, d)
    ELSE Step("", SetColumn(d, name, [i \in DOMAIN outs |-> outs[i].val]))

\* df[name] = df[src].apply(f)
AssignApply(st, name, src, f, bu) ==
    IF st.exc # "" THEN st
    ELSE AssignOutcomes(st.df, name,
            [i \in DOMAIN st.df.rows |-> Apply(f, st.df.rows[i][src], bu)] \o <<>>)

\* df[name] = value
AssignConst(st, name, value) ==
    IF st.exc # "" THEN st
    ELSE Step("", SetColumn(st.df, name, [i \in DOMAIN st.df.rows |-> value]))

\* an assignment whose fallback for a field that was not found is 'Automated'
AssignField_automated_default(st, name, src, f, bu, default) ==
    IF src # None THEN AssignApply(st, name, src, f, bu) ELSE AssignConst(st, name, "Automated")

\* df[name] = df[src].apply(f) when the field was found, else df[name] = default
AssignField(st, name, src, f, bu, default) ==
    IF src # None THEN AssignApply(st, name, src, f, bu) ELSE AssignConst(st, name, default)

\* df['Status'] = df.apply(determine_final_status, axis=1)
AssignStatus(st) ==
    IF st.exc # "" THEN st
    ELSE Step("", SetColumn(st.df, "Status",
                    [i \in DOMAIN st.df.rows |-> determine_final_status(st.df.rows[i])]))

GroupColumns == <<"Epic", "Status", "Device", "Country", "Priority">>
SummaryColumns == GroupColumns \o <<"Count">>

KeyOf(r) == [i \in DOMAIN GroupColumns |-> r[GroupColumns[i]]]

\* tuple comparison of two group keys
RECURSIVE KeyLess(_, _)
KeyLess(a, b) ==
    IF Len(a) = 0 THEN FALSE
    ELSE IF a[1] = b[1] THEN KeyLess(Tail(a), Tail(b))
    ELSE StrLess(a[1], b[1])

\* the keys of a set in ascending order
RECURSIVE SortKeys(_)
SortKeys(S) ==
    IF S = {} THEN <<>>
    ELSE LET least == CHOOSE k \in S : \A o \in S \ {k} : KeyLess(k, o)
         IN <<least>> \o SortKeys(S \ {least})

\* the rows of the groups of keys: the key and the number of its cases
GroupRows(d, keys) ==
    [g \in DOMAIN keys |->
        [Epic |-> keys[g][1], Status |-> keys[g][2], Device |-> keys[g][3],
         Country |-> keys[g][4], Priority |-> keys[g][5],
         Count |-> Cardinality({i \in DOMAIN d.rows : KeyOf(d.rows[i]) = keys[g]})]]

\* a grouping that emits one row per case
groupby_size_per_case(d) ==
    DataFrame(SummaryColumns,
        [i \in DOMAIN d.rows |->
            [Epic |-> d.rows[i]["Epic"], Status |-> d.rows[i]["Status"],
             Device |-> d.rows[i]["Device"], Country |-> d.rows[i]["Country"],
             Priority |-> d.rows[i]["Priority"], Count |-> 1]])

\* df.groupby([...], dropna=False).size().reset_index(name='Count'): one row
\* per distinct key, keys ascending
groupby_size(d) ==
    DataFrame(SummaryColumns,
              GroupRows(d, SortKeys({KeyOf(d.rows[i]) : i \in DOMAIN d.rows})))

\* What a call of process leaves behind: the table returned, the caller's
\* DataFrame and the st.error message shown ("" when none).
Outcome(ret, d, msg) == [ret |-> ret, df |-> d, report |-> msg]

NoData == "No data to process"
NoJavaField == "Java automation status field not found"
ProcessingError == "Processing Error"

\* df['Epic'] = ... if epic_field else 'No Epic Assigned'
AssignEpic(st, bu) ==
    AssignField(st, "Epic", find_field(st.df, "epic"), "fillna", bu, "No Epic Assigned")

\* df['Device'] = ... if device_field else 'Both'
AssignDevice(st, bu) ==
    AssignField(st, "Device", find_field(st.df, "device"), "map_device_status", bu, "Both")

\* df['Country'] = ... if country_field else 'Unknown'
AssignCountry(st, bu) ==
    AssignField(st, "Country", find_field(st.df, "country"), "map_country_id", bu, "Unknown")

\* df['Priority'] = ... if priority_field else 'Unknown'
AssignPriority(st, bu) ==
    AssignField(st, "Priority", find_field(st.df, "priority"), "map_priority", bu, "Unknown")

\* df['Testim_Desktop_Status'], df['Testim_Mobile_Status']
AssignTestim(st, bu, testim_desktop_field, testim_mobile_field) ==
    AssignField(AssignField(st, "Testim_Desktop_Status", testim_desktop_field,
                            "map_automation_status_testim", bu, None),
                "Testim_Mobile_Status", testim_mobile_field,
                "map_automation_status_testim", bu, None)

\* the mapping steps of the try block that follow the Java status
MapColumns(s1, bu, testim_desktop_field, testim_mobile_field) ==
    AssignPriority(AssignCountry(AssignDevice(AssignEpic(
        AssignStatus(AssignTestim(s1, bu, testim_desktop_field, testim_mobile_field)),
        bu), bu), bu), bu)

\* the end of the try block: the grouped summary, or the except branch
Summarise(st) ==
    IF st.exc # "" THEN Outcome(EmptyDataFrame, st.df, ProcessingError)
    ELSE Outcome(groupby_size(st.df), st.df, "")

\* a process in which the Java status is as optional as the Testim ones
process_java_optional(d, bu) ==
    IF IsEmpty(d) THEN Outcome(EmptyDataFrame, d, NoData)
    ELSE Summarise(MapColumns(AssignField(Step("", d), "Java_Status", find_field(d, "java"),
                                          "map_automation_status_java", bu, None),
                              bu, find_field(d, "testim_desktop"),
                              find_field(d, "testim_mobile")))

process(d, bu) ==
    IF IsEmpty(d) THEN Outcome(EmptyDataFrame, d, NoData)
    ELSE IF find_field(d, "java") = None THEN Outcome(EmptyDataFrame, d, NoJavaField)
    ELSE Summarise(MapColumns(AssignApply(Step("", d), "Java_Status", find_field(d, "java"),
                                          "map_automation_status_java", bu),
                              bu, find_field(d, "testim_desktop"),
                              find_field(d, "testim_mobile")))

(***************************************************************************)
(* Metrics aggregator (src/src/metrics.py)                                 *)
(***************************************************************************)
\* {} - what each metrics function returns from its except branch
EmptyDict == <<>>

HasColumns(d, names) == names \subseteq Range(d.columns)

\* ---- float64 arithmetic of the percentages ----

\* IEEE-754 binary64 keeps 53 significant binary digits
Precision == 53

\* the binary digits of a natural number, most significant first (<<>> for 0)
RECURSIVE NatToBits(_)
NatToBits(n) == IF n = 0 THEN <<>> ELSE NatToBits(n \div 2) \o <<n % 2>>

\* the natural number of at most 30 binary digits
RECURSIVE BitsToNat(_)
BitsToNat(bits) ==
    IF Len(bits) = 0 THEN 0
    ELSE 2 * BitsToNat(SubSeq(bits, 1, Len(bits) - 1)) + bits[Len(bits)]

Zeros(n) == [i \in 1..n |-> 0]

Reverse(s) == [i \in 1..Len(s) |-> s[Len(s) + 1 - i]]

StripZeros(bits) ==
    LET ones == {i \in DOMAIN bits : bits[i] = 1}
    IN IF ones = {} THEN <<>>
       ELSE SubSeq(bits, CHOOSE i \in ones : \A j \in ones : i <= j, Len(bits))

\* the digits of bits[1..i] * k + carry, least significant first
RECURSIVE MulDigits(_, _, _, _)
MulDigits(bits, k, i, carry) ==
    IF i = 0 THEN Reverse(NatToBits(carry))
    ELSE LET v == k * bits[i] + carry
         IN IF v % 2 = 1 THEN <<1>> \o MulDigits(bits, k, i - 1, v \div 2)
            ELSE <<0>> \o MulDigits(bits, k, i - 1, v \div 2)

\* bits * k + carry, for a small natural k
MulSmall(bits, k, carry) == Reverse(MulDigits(bits, k, Len(bits), carry))

\* bits + 1
Successor(bits) ==
    LET zeros == {i \in DOMAIN bits : bits[i] = 0}
    IN IF zeros = {} THEN <<1>> \o Zeros(Len(bits))
       ELSE LET last == CHOOSE i \in zeros : \A j \in zeros : j <= i
            IN SubSeq(bits, 1, last - 1) \o <<1>> \o Zeros(Len(bits) - last)

\* a <= b for two naturals given by their digits
BitsLessEq(a0, b0) ==
    LET a == StripZeros(a0)
        b == StripZeros(b0)
        differ == {i \in DOMAIN a : i \in DOMAIN b /\ a[i] # b[i]}
    IN IF Len(a) # Len(b) THEN Len(a) < Len(b)
       ELSE IF differ = {} THEN TRUE
       ELSE LET first == CHOOSE i \in differ : \A j \in differ : i <= j
            IN a[first] < b[first]

\* a float that is not negative: sig (Precision digits, the first one 1) times
\* 2^exp; 0.0 has no digits
Float(sig, exp) == [sig |-> sig, exp |-> exp]

\* 0.0, and the int 0 that compares equal to it
Zero == Float(<<>>, 0)

\* bits * 2^exp rounded to Precision digits, to nearest and a tie to even;
\* sticky: a non-zero remainder was cut off below the last digit of bits
RoundBits(bits, sticky, exp) ==
    LET kept == SubSeq(bits, 1, Precision)
        rest == \E i \in (Precision + 2)..Len(bits) : bits[i] = 1
        up == bits[Precision + 1] = 1 /\ (rest \/ sticky \/ kept[Precision] = 1)
        bumped == Successor(kept)
        e == exp + (Len(bits) - Precision)
    IN IF ~up THEN Float(kept, e)
       ELSE IF Len(bumped) > Precision THEN Float(SubSeq(bumped, 1, Precision), e + 1)
       ELSE Float(bumped, e)

\* the float nearest to bits * 2^exp
Normalize(bits0, exp) ==
    LET bits == StripZeros(bits0)
    IN IF Len(bits) = 0 THEN Zero
       ELSE IF Len(bits) <= Precision
            THEN Float(bits \o Zeros(Precision - Len(bits)), exp - (Precision - Len(bits)))
       ELSE RoundBits(bits, FALSE, exp)

FloatOfInt(n) == Normalize(NatToBits(n), 0)

\* 2^i mod b
RECURSIVE Pow2Mod(_, _)
Pow2Mod(i, b) ==
    IF i = 0 THEN 1 % b
    ELSE IF i % 2 = 1 THEN (2 * Pow2Mod(i - 1, b)) % b
    ELSE LET h == Pow2Mod(i \div 2, b) IN (h * h) % b

\* a / b for ints a >= 0 and b > 0, correctly rounded: the digits of the
\* quotient by long division up to one guard digit, and the remainder
FloatDiv(a, b) ==
    IF a = 0 THEN Zero
    ELSE LET ip == NatToBits(a \div b)
             r == a % b
             \* the fraction starts with `lead` zeros when the quotient is below 1
             lead == IF Len(ip) > 0 \/ r = 0 THEN 0
                     ELSE (CHOOSE s \in 1..30 : r * 2^s >= b /\ r * 2^(s - 1) < b) - 1
             n == IF Len(ip) > Precision THEN 0 ELSE Precision + 1 - Len(ip) + lead
             rem(i) == (r * Pow2Mod(i, b)) % b
             fr == [i \in 1..n |-> (2 * rem(i - 1)) \div b]
         IN IF n = 0 THEN Normalize(ip, 0)
            ELSE RoundBits(StripZeros(ip \o fr), rem(n) # 0, 0 - n)

\* f * k for a small int k > 0
FloatMulSmall(f, k) ==
    IF Len(f.sig) = 0 THEN Zero ELSE Normalize(MulSmall(f.sig, k, 0), f.exp)

\* np.rint: the nearest integer, a tie to the even one (f below 2^30)
FloatRint(f) ==
    IF Len(f.sig) = 0 THEN 0
    ELSE IF f.exp >= 0 THEN BitsToNat(f.sig \o Zeros(f.exp))
    ELSE LET cut == Precision + f.exp
             ip == IF cut > 0 THEN BitsToNat(SubSeq(f.sig, 1, cut)) ELSE 0
             guard == IF cut >= 0 THEN f.sig[cut + 1] = 1 ELSE FALSE
             rest == \E i \in (cut + 2)..Precision : i >= 1 /\ f.sig[i] = 1
         IN IF guard /\ (rest \/ ip % 2 = 1) THEN ip + 1 ELSE ip

\* f < g
FloatLess(f, g) ==
    IF Len(g.sig) = 0 THEN FALSE
    ELSE IF Len(f.sig) = 0 THEN TRUE
    ELSE IF f.exp # g.exp THEN f.exp < g.exp
    ELSE f.sig # g.sig /\ BitsLessEq(f.sig, g.sig)

\* the largest sum of Count of the tables the specifications build
MaxTotal == IF MaxRows * MaxCount > MaxCases THEN MaxRows * MaxCount ELSE MaxCases

CountPairs == (0..MaxTotal) \X (1..MaxTotal)

\* a / b * 100 for every pair of counts, evaluated once (@@ makes the table
\* an explicit function)
Percentages == [p \in CountPairs |-> FloatMulSmall(FloatDiv(p[1], p[2]), 100)] @@ <<>>

\* a ratio that is not scaled to a percentage
Percentage_unscaled(a, b) == IF b > 0 THEN FloatDiv(a, b) ELSE Zero

\* a / b * 100 guarded by `if b > 0 else 0`
Percentage(a, b) ==
    IF b <= 0 THEN Zero
    ELSE IF <<a, b>> \in CountPairs THEN Percentages[<<a, b>>]
    ELSE FloatMulSmall(FloatDiv(a, b), 100)

\* the Count of the first of the rows whose index is in I
SumCount_first(rows, I) == IF I = {} THEN 0 ELSE rows[Min(I)]["Count"]

\* df[mask]['Count'].sum() over the rows whose index is in I
RECURSIVE SumCount(_, _)
SumCount(rows, I) ==
    IF I = {} THEN 0
    ELSE LET i == CHOOSE x \in I : TRUE
         IN rows[i]["Count"] + SumCount(rows, I \ {i})

\* a filter whose 'Automated - Testim Both' literal matches no row
WithStatus_misspelt(d, status) ==
    {i \in DOMAIN d.rows : d.rows[i]["Status"] = status /\ status # "Automated - Testim Both"}

WithStatus(d, status) == {i \in DOMAIN d.rows : d.rows[i]["Status"] = status}

\* a test for 'Automated' anywhere in the status
IsAutomatedStatus_anywhere(status) == Contains(status, "Automated")

\* Status.str.contains('Automated -', na=False)
IsAutomatedStatus(status) == Contains(status, "Automated -")

calculate_overall_metrics(d) ==
    IF ~HasColumns(d, {"Count", "Status"}) THEN EmptyDict
    ELSE LET total == SumCount(d.rows, DOMAIN d.rows)
             automated_java == SumCount(d.rows, WithStatus(d, "Automated - Java"))
             automated_testim_desktop == SumCount(d.rows, WithStatus(d, "Automated - Testim Desktop"))
             automated_testim_mobile == SumCount(d.rows, WithStatus(d, "Automated - Testim Mobile"))
             automated_testim_both == SumCount(d.rows, WithStatus(d, "Automated - Testim Both"))
             total_automated == automated_java + automated_testim_desktop
                                + automated_testim_mobile + automated_testim_both
             total_testim == automated_testim_desktop + automated_testim_mobile
                             + automated_testim_both
             to_be_automated == SumCount(d.rows, WithStatus(d, "To Be Automated"))
             not_applicable == SumCount(d.rows, WithStatus(d, "N/A"))
             not_automated == SumCount(d.rows, WithStatus(d, "Not Automated"))
             effective_total == total - not_applicable
             coverage == Percentage(total_automated, effective_total)
         IN [total |-> total,
             automated_java |-> automated_java,
             automated_testim_desktop |-> automated_testim_desktop,
             automated_testim_mobile |-> automated_testim_mobile,
             automated_testim_both |-> automated_testim_both,
             total_automated |-> total_automated,
             total_testim |-> total_testim,
             to_be_automated |-> to_be_automated,
             not_applicable |-> not_applicable,
             not_automated |-> not_automated,
             effective_total |-> effective_total,
             coverage |-> coverage]

\* a reduction whose testim_total counts the 'Automated - Java' rows too
calculate_testim_metrics_counting_java(d) ==
    IF ~HasColumns(d, {"Count", "Status"}) THEN EmptyDict
    ELSE LET automated_testim_desktop == SumCount(d.rows, WithStatus(d, "Automated - Testim Desktop"))
             automated_testim_mobile == SumCount(d.rows, WithStatus(d, "Automated - Testim Mobile"))
             automated_testim_both == SumCount(d.rows, WithStatus(d, "Automated - Testim Both"))
             total_testim == automated_testim_desktop + automated_testim_mobile
                             + automated_testim_both
             testim_total == total_testim
                             + SumCount(d.rows, WithStatus(d, "To Be Automated")
                                                \cup WithStatus(d, "Not Automated")
                                                \cup WithStatus(d, "Automated - Java"))
         IN [testim_total |-> testim_total,
             total_testim |-> total_testim,
             testim_coverage |-> Percentage(total_testim, testim_total),
             desktop |-> automated_testim_desktop,
             mobile |-> automated_testim_mobile,
             both |-> automated_testim_both,
             desktop_pct |-> Percentage(automated_testim_desktop, total_testim),
             mobile_pct |-> Percentage(automated_testim_mobile, total_testim),
             both_pct |-> Percentage(automated_testim_both, total_testim),
             to_be_automated |-> SumCount(d.rows, WithStatus(d, "To Be Automated")),
             not_automated |-> SumCount(d.rows, WithStatus(d, "Not Automated"))]

calculate_testim_metrics(d) ==
    IF ~HasColumns(d, {"Count", "Status"}) THEN EmptyDict
    ELSE LET automated_testim_desktop == SumCount(d.rows, WithStatus(d, "Automated - Testim Desktop"))
             automated_testim_mobile == SumCount(d.rows, WithStatus(d, "Automated - Testim Mobile"))
             automated_testim_both == SumCount(d.rows, WithStatus(d, "Automated - Testim Both"))
             total_testim == automated_testim_desktop + automated_testim_mobile
                             + automated_testim_both
             testim_total == total_testim
                             + SumCount(d.rows, WithStatus(d, "To Be Automated")
                                                \cup WithStatus(d, "Not Automated"))
         IN [testim_total |-> testim_total,
             total_testim |-> total_testim,
             testim_coverage |-> Percentage(total_testim, testim_total),
             desktop |-> automated_testim_desktop,
             mobile |-> automated_testim_mobile,
             both |-> automated_testim_both,
             desktop_pct |-> Percentage(automated_testim_desktop, total_testim),
             mobile_pct |-> Percentage(automated_testim_mobile, total_testim),
             both_pct |-> Percentage(automated_testim_both, total_testim),
             to_be_automated |-> SumCount(d.rows, WithStatus(d, "To Be Automated")),
             not_automated |-> SumCount(d.rows, WithStatus(d, "Not Automated"))]

Devices == {"Desktop", "Mobile", "Both"}

calculate_device_metrics(d) ==
    IF ~HasColumns(d, {"Device", "Status", "Count"}) THEN EmptyDict
    ELSE [device \in Devices |->
            LET device_data == {i \in DOMAIN d.rows : d.rows[i]["Device"] = device}
                device_automated == SumCount(d.rows,
                    {i \in device_data : IsAutomatedStatus(d.rows[i]["Status"])})
                device_total == SumCount(d.rows, device_data)
            IN [automated |-> device_automated,
                total |-> device_total,
                coverage |-> Percentage(device_automated, device_total)]]

\* the tenths of np.round(f, 1): rint(f * 10)
Tenths(f) == FloatRint(FloatMulSmall(f, 10))

\* Series.round(1): rint(f * 10) / 10
Round1(f) == FloatDiv(Tenths(f), 10)

\* the tenths of the rounded percentage of every pair of counts, and the
\* rounded percentage, evaluated once
PercentageTenths == [p \in CountPairs |-> Tenths(Percentages[p])] @@ <<>>

RoundedPercentages == [p \in CountPairs |-> FloatDiv(PercentageTenths[p], 10)] @@ <<>>

\* a percentage that is not rounded
RoundedPercentage_unrounded(a, b) == Percentage(a, b)

\* ((a / b) * 100).round(1).fillna(0).replace([inf], 0)
RoundedPercentage(a, b) ==
    IF b = 0 THEN Zero
    ELSE IF <<a, b>> \in CountPairs THEN RoundedPercentages[<<a, b>>]
    ELSE Round1(Percentage(a, b))

\* strings of a set in ascending order
RECURSIVE SortStrings(_)
SortStrings(S) ==
    IF S = {} THEN <<>>
    ELSE LET least == CHOOSE x \in S : \A y \in S \ {x} : StrLess(x, y)
         IN <<least>> \o SortStrings(S \ {least})

\* the orders a sort may put n rows in
Orders(n) == {p \in [1..n -> 1..n] : \A i, j \in 1..n : i # j => p[i] # p[j]}

\* COVERAGE % does not increase along the rows
IsDescending(rows) ==
    \A i \in 1..(Len(rows) - 1) : ~FloatLess(rows[i]["COVERAGE %"], rows[i + 1]["COVERAGE %"])

\* the pivot left in the order of its index, the epic names
sort_values_by_index(rows) == {rows}

\* a sort that puts the lowest coverage first
sort_values_ascending(rows) ==
    {q \in {[i \in DOMAIN rows |-> rows[p[i]]] : p \in Orders(Len(rows))} :
        \A i \in 1..(Len(q) - 1) : ~FloatLess(q[i + 1]["COVERAGE %"], q[i]["COVERAGE %"])}

\* sort_values(by='COVERAGE %', ascending=False) with the default
\* kind='quicksort', which is not stable: every descending order of the rows
\* is a possible result, rows of equal coverage in any relative order
sort_values(rows) ==
    {q \in {[i \in DOMAIN rows |-> rows[p[i]]] : p \in Orders(Len(rows))} :
        IsDescending(q)}

PivotColumns == <<"Automated", "To Be Automated", "N/A", "Not Automated", "TOTAL",
                  "EFFECTIVE TOTAL", "COVERAGE %">>

\* aggregate_epic_status and the two derived columns for the rows of one epic
EpicRow(d, epic) ==
    LET group == {i \in DOMAIN d.rows : d.rows[i]["Epic"] = epic}
        automated_count == SumCount(d.rows, {i \in group : IsAutomatedStatus(d.rows[i]["Status"])})
        to_be_count == SumCount(d.rows, {i \in group : d.rows[i]["Status"] = "To Be Automated"})
        na_count == SumCount(d.rows, {i \in group : d.rows[i]["Status"] = "N/A"})
        not_auto_count == SumCount(d.rows, {i \in group : d.rows[i]["Status"] = "Not Automated"})
        total == SumCount(d.rows, group)
        effective == total - na_count
    IN ("Epic" :> epic) @@ ("Automated" :> automated_count) @@ ("To Be Automated" :> to_be_count)
       @@ ("N/A" :> na_count) @@ ("Not Automated" :> not_auto_count) @@ ("TOTAL" :> total)
       @@ ("EFFECTIVE TOTAL" :> effective)
       @@ ("COVERAGE %" :> RoundedPercentage(automated_count, effective))

\* a quotient of two ints, in lowest terms
RECURSIVE GCD(_, _)
GCD(a, b) == IF b = 0 THEN a ELSE GCD(b, a % b)

Ratio(n, d) == LET g == GCD(n, d) IN [num |-> n \div g, den |-> d \div g]

\* the tenths of the COVERAGE % of a pivot row
RowTenths(r) ==
    IF r["EFFECTIVE TOTAL"] = 0 THEN 0
    ELSE IF <<r["Automated"], r["EFFECTIVE TOTAL"]>> \in CountPairs
         THEN PercentageTenths[<<r["Automated"], r["EFFECTIVE TOTAL"]>>]
    ELSE Tenths(r["COVERAGE %"])

RECURSIVE SumTenths(_)
SumTenths(rows) ==
    IF Len(rows) = 0 THEN 0 ELSE RowTenths(Head(rows)) + SumTenths(Tail(rows))

\* the pivot before it is sorted: one row per Epic, the epics ascending
EpicRowsOf(d, epics) == [e \in DOMAIN epics |-> EpicRow(d, epics[e])] \o <<>>

EpicPivot(d) == EpicRowsOf(d, SortStrings({d.rows[i]["Epic"] : i \in DOMAIN d.rows}))

\* the statistics over the sorted pivot
EpicStats(pivot) ==
    [num_epics |-> Len(pivot),
     \* the mean, kept as the exact quotient of the tenths
     avg_coverage |-> Ratio(SumTenths(pivot), 10 * Len(pivot)),
     epics_above_50 |-> Cardinality({i \in DOMAIN pivot :
                           ~FloatLess(pivot[i]["COVERAGE %"], FloatOfInt(50))}),
     epics_below_30 |-> Cardinality({i \in DOMAIN pivot :
                           FloatLess(pivot[i]["COVERAGE %"], FloatOfInt(30))})]

\* The results (pivot, stats) the call may return, one per order the sort may
\* leave the pivot in; (pd.DataFrame(), {}) from the except branch, which a
\* table without the columns or without rows reaches.
calculate_epic_metrics(d) ==
    IF ~HasColumns(d, {"Epic", "Status", "Count"}) \/ Len(d.rows) = 0
    THEN {[pivot |-> EmptyDataFrame, stats |-> EmptyDict]}
    ELSE {[pivot |-> DataFrame(PivotColumns, sorted), stats |-> EpicStats(sorted)] :
            sorted \in sort_values(EpicPivot(d))}

\* the results of the four reductions over one table, for each result of the
\* epic reduction
AllMetrics(d) ==
    {[overall |-> calculate_overall_metrics(d),
      testim |-> calculate_testim_metrics(d),
      device |-> calculate_device_metrics(d),
      epic |-> epic] : epic \in calculate_epic_metrics(d)}

\* ---- filter_epic_by_search ----

\* the nesting depth after each '(' and ')' of a pattern, -1 once a ')' closed
\* no group
RECURSIVE GroupDepth(_, _)
GroupDepth(pat, depth) ==
    IF depth < 0 \/ Len(pat) = 0 THEN depth
    ELSE GroupDepth(SubSeq(pat, 2, Len(pat)),
                    CASE CharAt(pat, 1) = "(" -> depth + 1
                      [] CharAt(pat, 1) = ")" -> depth - 1
                      [] OTHER -> depth)

\* re.compile(pat) raises re.error: a group is not closed or not opened
\* (patterns of letters, digits, spaces, '.', '(' and ')')
RaisesReError(pat) == GroupDepth(pat, 0) # 0

\* the pattern without its group parentheses, which match no character
RECURSIVE WithoutGroups(_)
WithoutGroups(pat) ==
    IF Len(pat) = 0 THEN ""
    ELSE (IF CharAt(pat, 1) \in {"(", ")"} THEN "" ELSE CharAt(pat, 1))
         \o WithoutGroups(SubSeq(pat, 2, Len(pat)))

\* re.search with re.IGNORECASE: '.' matches any character, a letter matches
\* itself in either case
RegexSearch(pat, text) ==
    \E i \in 1..(Len(text) - Len(pat) + 1) :
        \A k \in 1..Len(pat) :
            \/ CharAt(pat, k) = "."
            \/ lower(CharAt(pat, k)) = lower(CharAt(text, i + k - 1))

\* pivot.index.str.contains(search_term, case=False, na=False): the term is a
\* regular expression (regex=True is the default)
str_contains(text, search_term) == RegexSearch(WithoutGroups(search_term), text)

\* pivot[mask]: the rows whose index matches, in the pivot's order
RECURSIVE SelectRows(_, _)
SelectRows(rows, search_term) ==
    IF Len(rows) = 0 THEN <<>>
    ELSE (IF str_contains(Head(rows)["Epic"], search_term) THEN <<Head(rows)>> ELSE <<>>)
         \o SelectRows(Tail(rows), search_term)

filter_epic_by_search(pivot, search_term) ==
    IF search_term = "" THEN pivot
    ELSE IF RaisesReError(search_term) THEN pivot
    ELSE DataFrame(pivot.columns, SelectRows(pivot.rows, search_term))

\* no mapper was called, no pivot is held
(***************************************************************************)
(* TestRail connector (src/src/connector.py, src/src/constants.py)         *)
(***************************************************************************)
\* Number of records to fetch per API call
API_BATCH_SIZE == 250

\* the cases of a suite of n cases, in the order of the suite
SourceCases(n) == [i \in 1..n |-> [id |-> i]] \o <<>>

\* api.cases.get_cases(limit=limit, offset=offset) of a suite that honours
\* offset and limit: the response is a dict with the page under 'cases', or
\* the page itself
get_cases(src, limit, start, as_dict) ==
    LET last == IF start + limit < Len(src) THEN start + limit ELSE Len(src)
    IN [is_dict |-> as_dict, cases |-> SubSeq(src, start + 1, last)]

\* response.get('cases', []) if isinstance(response, dict) else response
BatchOf(response) == response.cases

\* a batch that ends the loop only when it is empty
IsLastBatch_empty(batch, limit) == Len(batch) = 0

\* `if not batch: break` and `if len(batch) < limit: break`
IsLastBatch(batch, limit) == Len(batch) = 0 \/ Len(batch) < limit

\* the normal exit: pd.DataFrame() with a warning when nothing was
\* collected, else pd.DataFrame(all_cases)
fetch_return(cases) ==
    IF Len(cases) = 0 THEN EmptyDataFrame ELSE DataFrame(<<"id">>, cases)

\* an except branch that returns the pages collected before the error
fetch_except_partial(cases) == fetch_return(cases)

\* except Exception: the error is logged and shown, pd.DataFrame() returned
fetch_except(cases) == EmptyDataFrame

NoApiClient == "API client not available"
FetchError == "Fetch Error"

(***************************************************************************)
(* Dashboard session (src/dashboard.py)                                    *)
(***************************************************************************)
FetchFailed == "Failed to fetch data from TestRail"
NoDataAfterProcessing == "No data after processing"

\* initialize_session_state
InitialSessionState == [data_loaded |-> FALSE, df_summary |-> NullVal, current_bu |-> ""]

\* the end of load_data, given what process returned
StoreSummary(ss, selected, df_summary) ==
    IF IsEmpty(df_summary)
    THEN [state |-> [ss EXCEPT !.data_loaded = FALSE], report |-> NoDataAfterProcessing]
    ELSE [state |-> [data_loaded |-> TRUE, df_summary |-> df_summary, current_bu |-> selected],
          report |-> ""]

\* a load_data that leaves data_loaded as it is when the load fails
load_data_keeps_loaded(ss, selected, raw) ==
    IF IsEmpty(raw) THEN [state |-> ss, report |-> FetchFailed]
    ELSE StoreSummary(ss, selected, process(raw, selected).ret)

\* load_data(selected_bu), raw being what fetch_data_recursive returned
load_data(ss, selected, raw) ==
    IF IsEmpty(raw)
    THEN [state |-> [ss EXCEPT !.data_loaded = FALSE], report |-> FetchFailed]
    ELSE StoreSummary(ss, selected, process(raw, selected).ret)

\* what main renders: the dashboard of the stored summary, or the hint to
\* select a business unit
Render(ss) ==
    IF ss.data_loaded THEN [view |-> "dashboard", df |-> ss.df_summary, bu |-> ss.current_bu]
    ELSE [view |-> "info", df |-> NullVal, bu |-> ""]

\* one run of main with the widget values and the result of the load
main(ss, selected, clicked, raw) ==
    IF clicked \/ (ss.data_loaded /\ ss.current_bu # selected)
    THEN load_data(ss, selected, raw)
    ELSE [state |-> ss, report |-> ""]

NoMapping == raw_value = NullVal /\ mapper = "" /\ mapped = Return(None)
NoFilter == epic_pivot = EmptyDataFrame /\ search = "" /\ filtered = EmptyDataFrame
NoFetch ==
    /\ api = FALSE
    /\ source = <<>>
    /\ offset = 0
    /\ all_cases = <<>>
    /\ requests = <<>>
    /\ raw_df = Return(EmptyDataFrame)
    /\ fetch_error = ""
NoSession ==
    /\ session_state = InitialSessionState
    /\ selected_bu = ""
    /\ update_clicked = FALSE
    /\ rendered = Render(InitialSessionState)
    /\ load_report = ""

(***************************************************************************)
(* Specification of the pipeline: cases are fetched into a DataFrame,      *)
(* process summarises it and the metrics are computed over the summary.    *)
(***************************************************************************)
StatusSchema == <<"custom_automation_status", "custom_case_automation_status_testim",
                  "custom_case_automation_status_mobile_view">>
EpicSchema == <<"automation_status", "custom_epic_reference", "custom_devices">>
CountrySchema == <<"custom_automation_status", "multi_countries", "priority_id">>
NoJavaSchema == <<"title", "custom_devices", "priority_id">>
MobileOnlySchema == <<"custom_automation_status", "custom_case_automation_status_mobile_view">>

BatchSchemas == {StatusSchema, EpicSchema, CountrySchema, NoJavaSchema, MobileOnlySchema, <<>>}

\* the cells a column of a fetched case may hold
CellValues(schema, column) ==
    CASE column \in {"custom_automation_status", "automation_status"} ->
            IF schema = StatusSchema THEN {NullVal, IntVal(3), IntVal(4), IntVal(11)}
            ELSE IF schema = EpicSchema THEN {NullVal, StrVal("3")}
            ELSE {IntVal(2)}
      [] column = "custom_case_automation_status_testim" -> {NullVal, IntVal(3), IntVal(2)}
      [] column = "custom_case_automation_status_mobile_view" -> {FloatVal(3, 0), IntVal(10)}
      [] column = "custom_epic_reference" -> {NullVal, StrVal("Cart")}
      [] column = "custom_devices" ->
            IF schema = NoJavaSchema THEN {IntVal(1), ListVal(<<IntVal(1), IntVal(2)>>)}
            ELSE {NullVal, IntVal(1), IntVal(2), IntVal(7), StrVal("tablet"),
                  ListVal(<<IntVal(1), IntVal(2)>>)}
      [] column = "multi_countries" ->
            {NullVal, IntVal(3), StrVal("5"), StrVal("abc"), ListVal(<<IntVal(3), IntVal(5)>>)}
      [] column = "priority_id" ->
            IF schema = NoJavaSchema THEN {NullVal, IntVal(3)}
            ELSE {NullVal, IntVal(4), IntVal(99), StrVal("Highest"), ListVal(<<IntVal(3)>>)}
      [] OTHER -> {StrVal("Login works")}

\* the raw cases of a schema: one cell per column
RECURSIVE CasesOver(_, _)
CasesOver(schema, columns) ==
    IF Len(columns) = 0 THEN {<<>>}
    ELSE {(Head(columns) :> v) @@ c : v \in CellValues(schema, Head(columns)),
                                      c \in CasesOver(schema, Tail(columns))}

Cases(schema) == CasesOver(schema, schema)

BusinessUnits == {"Marionnaud", "Drogas"}

NoMetrics == <<>>

InitProcess ==
    /\ df \in {DataFrame(schema, <<>>) : schema \in BatchSchemas}
    \* bu_name only reaches map_country_id; elsewhere the default is passed
    /\ bu_name \in (IF df.columns = CountrySchema THEN BusinessUnits ELSE {"Marionnaud"})
    /\ summary = EmptyDataFrame
    /\ report = ""
    /\ metrics = NoMetrics
    /\ row = NoRow
    /\ final_status = ""
    /\ field_type = ""
    /\ found = ""
    /\ pc = "fetch"
    /\ NoMapping
    /\ NoFilter
    /\ NoFetch
    /\ NoSession

\* a fetched case becomes a row of the DataFrame handed to process
FetchCase ==
    /\ pc = "fetch"
    /\ Len(df.rows) < MaxCases
    /\ \E c \in Cases(df.columns) : df' = DataFrame(df.columns, Append(df.rows, c))
    /\ UNCHANGED <<row, final_status, bu_name, field_type, found, summary, report, metrics, pc>>
    /\ UNCHANGED <<raw_value, mapper, mapped, epic_pivot, search, filtered>>
    /\ UNCHANGED <<fetch_vars, session_vars>>

\* df_summary = process(raw_df, bu_name=selected_bu)
Process ==
    /\ pc = "fetch"
    /\ \E out \in {process(df, bu_name)} :
          /\ summary' = out.ret
          /\ df' = out.df
          /\ report' = out.report
    /\ pc' = "processed"
    /\ UNCHANGED <<row, final_status, bu_name, field_type, found, metrics>>
    /\ UNCHANGED <<raw_value, mapper, mapped, epic_pivot, search, filtered>>
    /\ UNCHANGED <<fetch_vars, session_vars>>

\* the four metrics functions applied to the summary
CalculateMetrics ==
    /\ pc = "processed"
    /\ metrics' \in AllMetrics(summary)
    /\ pc' = "measured"
    /\ UNCHANGED <<row, final_status, df, bu_name, field_type, found, summary, report>>
    /\ UNCHANGED <<raw_value, mapper, mapped, epic_pivot, search, filtered>>
    /\ UNCHANGED <<fetch_vars, session_vars>>

NextProcess == FetchCase \/ Process \/ CalculateMetrics

SpecProcess == InitProcess /\ [][NextProcess]_vars

(***************************************************************************)
(* Specification of the metrics: a summary table is handed to the four     *)
(* metrics functions.                                                      *)
(***************************************************************************)
\* the (Epic, Device) pairs of the rows
TableAttrs == {<<"Cart", "Desktop">>, <<"Cart", "Both">>, <<"Login", "Both">>}

TableRows ==
    {[Epic |-> a[1], Status |-> st, Device |-> a[2], Country |-> "MRN", Priority |-> "High",
      Count |-> n] : a \in TableAttrs, st \in FinalStatuses, n \in 0..MaxCount}

InitMetrics ==
    /\ \E n \in 0..MaxRows : \E rows \in [1..n -> TableRows] :
            summary = DataFrame(SummaryColumns, rows)
    /\ metrics = NoMetrics
    /\ df = EmptyDataFrame
    /\ bu_name = ""
    /\ report = ""
    /\ row = NoRow
    /\ final_status = ""
    /\ field_type = ""
    /\ found = ""
    /\ pc = "processed"
    /\ NoMapping
    /\ NoFilter
    /\ NoFetch
    /\ NoSession

NextMetrics == CalculateMetrics

SpecMetrics == InitMetrics /\ [][NextMetrics]_vars

(***************************************************************************)
(* Specification of the status resolver: a row of mapped statuses is       *)
(* handed to determine_final_status.                                       *)
(***************************************************************************)
StatusKeys == {"Java_Status", "Testim_Desktop_Status", "Testim_Mobile_Status"}

\* rows whose present components hold a mapped status or None
StatusRows == UNION {[K -> Statuses \cup {None}] : K \in SUBSET StatusKeys}

InitStatus ==
    /\ row \in StatusRows
    /\ final_status = ""
    /\ df = EmptyDataFrame
    /\ bu_name = ""
    /\ field_type = ""
    /\ found = ""
    /\ summary = EmptyDataFrame
    /\ report = ""
    /\ metrics = <<>>
    /\ pc = "row"
    /\ NoMapping
    /\ NoFilter
    /\ NoFetch
    /\ NoSession

DetermineFinalStatus ==
    /\ pc = "row"
    /\ final_status' = determine_final_status(row)
    /\ pc' = "resolved"
    /\ UNCHANGED <<row, df, bu_name, field_type, found, summary, report, metrics>>
    /\ UNCHANGED <<raw_value, mapper, mapped, epic_pivot, search, filtered>>
    /\ UNCHANGED <<fetch_vars, session_vars>>

NextStatus == DetermineFinalStatus

SpecStatus == InitStatus /\ [][NextStatus]_vars

(***************************************************************************)
(* Specification of the field resolver: a schema and a category are handed *)
(* to find_field.                                                          *)
(***************************************************************************)
SchemaPool == {"custom_automation_status", "automation_status", "refs",
               "custom_epic_reference", "other_field"}

\* column indexes: sequences of distinct names
Schemas == {c \in UNION {[1..n -> SchemaPool] : n \in 0..MaxCols} :
                \A i, j \in DOMAIN c : i # j => c[i] # c[j]}

AskedTypes == {"java", "epic", "device", "owner"}

InitField ==
    /\ df \in {DataFrame(c, <<>>) : c \in Schemas}
    /\ field_type \in AskedTypes
    /\ found = ""
    /\ row = NoRow
    /\ final_status = ""
    /\ bu_name = ""
    /\ summary = EmptyDataFrame
    /\ report = ""
    /\ metrics = <<>>
    /\ pc = "schema"
    /\ NoMapping
    /\ NoFilter
    /\ NoFetch
    /\ NoSession

FindField ==
    /\ pc = "schema"
    /\ found' = find_field(df, field_type)
    /\ pc' = "found"
    /\ UNCHANGED <<row, final_status, df, bu_name, field_type, summary, report, metrics>>
    /\ UNCHANGED <<raw_value, mapper, mapped, epic_pivot, search, filtered>>
    /\ UNCHANGED <<fetch_vars, session_vars>>

NextField == FindField

SpecField == InitField /\ [][NextField]_vars

(***************************************************************************)
(* Specification of the value mappers: a raw value is handed to one of the *)
(* mappers.                                                                *)
(***************************************************************************)
Mappers == {"map_country_id", "map_priority", "map_device_status",
            "map_automation_status_java", "map_automation_status_testim"}

\* scalar raw values: missing, codes as int, float and str, labels, free text
MapperScalars ==
    {NullVal, IntVal(1), IntVal(2), IntVal(3), IntVal(4), IntVal(5), IntVal(6),
     IntVal(7), IntVal(8), IntVal(9), IntVal(10), IntVal(99),
     FloatVal(3, 0), FloatVal(3, 7), FloatVal(1, 5), StrVal("3.7"),
     StrVal("3"), StrVal("5"), StrVal(" 3 "), StrVal("3.0"), StrVal("999"), StrVal("abc"),
     StrVal("highest"), StrVal("High"), StrVal("The HIGHEST one"), StrVal("medium"),
     StrVal("low"), StrVal("inf"), StrVal("nan")}

\* the elements of a multi-valued raw value
MapperElements == {NullVal, IntVal(3), FloatVal(3, 0), StrVal("3"), StrVal("5"), StrVal("999")}

MapperLists == UNION {[1..n -> MapperElements] : n \in 0..MaxElems}

MapperValues == MapperScalars \cup {ListVal(l) : l \in MapperLists}

InitMapper ==
    /\ raw_value \in MapperValues
    /\ mapper \in Mappers
    \* only map_country_id takes the business unit
    /\ bu_name \in (IF mapper = "map_country_id" THEN BusinessUnits ELSE {"Marionnaud"})
    /\ mapped = Return(None)
    /\ NoFilter
    /\ NoFetch
    /\ NoSession
    /\ df = EmptyDataFrame
    /\ summary = EmptyDataFrame
    /\ report = ""
    /\ metrics = NoMetrics
    /\ row = NoRow
    /\ final_status = ""
    /\ field_type = ""
    /\ found = ""
    /\ pc = "value"

\* the call of the mapper on the raw value
MapValue ==
    /\ pc = "value"
    /\ mapped' = Apply(mapper, raw_value, bu_name)
    /\ pc' = "mapped"
    /\ UNCHANGED <<row, final_status, df, bu_name, field_type, found, summary, report, metrics>>
    /\ UNCHANGED <<raw_value, mapper, epic_pivot, search, filtered>>
    /\ UNCHANGED <<fetch_vars, session_vars>>

NextMapper == MapValue

SpecMapper == InitMapper /\ [][NextMapper]_vars

(***************************************************************************)
(* Specification of the epic search: the report holds a pivot sorted by    *)
(* coverage, filters it by the text of the search box and may sort it      *)
(* again.                                                                  *)
(***************************************************************************)
EpicNames == {"Epic One", "epic two", "Story Three", "Login (v2)"}

SearchTerms == {"", "Epic", "epic t", "o", "zzz", ".", "(v2)", "("}

CoverageValues == {Zero, FloatOfInt(50), FloatOfInt(100)}

PivotRows == {("Epic" :> name) @@ ("COVERAGE %" :> c) : name \in EpicNames, c \in CoverageValues}

\* pivots as calculate_epic_metrics leaves them: one row per epic, coverage
\* descending
Pivots ==
    {rows \in UNION {[1..n -> PivotRows] : n \in 0..MaxEpics} :
        /\ \A i, j \in DOMAIN rows : i # j => rows[i]["Epic"] # rows[j]["Epic"]
        /\ IsDescending(rows)}

InitFilter ==
    /\ epic_pivot \in {DataFrame(<<"COVERAGE %">>, rows) : rows \in Pivots}
    /\ search \in SearchTerms
    /\ filtered = EmptyDataFrame
    /\ NoMapping
    /\ NoFetch
    /\ NoSession
    /\ bu_name = ""
    /\ df = EmptyDataFrame
    /\ summary = EmptyDataFrame
    /\ report = ""
    /\ metrics = NoMetrics
    /\ row = NoRow
    /\ final_status = ""
    /\ field_type = ""
    /\ found = ""
    /\ pc = "pivot"

\* pivot_filtered = filter_epic_by_search(pivot, epic_search), on every run
\* of the report
FilterEpics ==
    /\ pc \in {"pivot", "filtered"}
    /\ filtered' = filter_epic_by_search(epic_pivot, search)
    /\ pc' = "filtered"
    /\ UNCHANGED <<row, final_status, df, bu_name, field_type, found, summary, report, metrics>>
    /\ UNCHANGED <<raw_value, mapper, mapped, epic_pivot, search>>
    /\ UNCHANGED <<fetch_vars, session_vars>>

\* the pivot is sorted by coverage once more
Resort ==
    /\ pc \in {"pivot", "filtered"}
    /\ \E sorted \in sort_values(epic_pivot.rows) :
          epic_pivot' = DataFrame(epic_pivot.columns, sorted)
    /\ UNCHANGED <<row, final_status, df, bu_name, field_type, found, summary, report, metrics>>
    /\ UNCHANGED <<raw_value, mapper, mapped, search, filtered, pc>>
    /\ UNCHANGED <<fetch_vars, session_vars>>

NextFilter == FilterEpics \/ Resort

SpecFilter == InitFilter /\ [][NextFilter]_vars

(***************************************************************************)
(* Specification of the fetch: fetch_data_recursive pages through a suite; *)
(* a page request may raise.                                               *)
(***************************************************************************)
pipeline_vars == <<row, final_status, df, bu_name, field_type, found, summary, report, metrics,
                   raw_value, mapper, mapped, epic_pivot, search, filtered>>

InitFetch ==
    /\ api \in BOOLEAN
    /\ \E n \in 0..MaxSource : source = SourceCases(n)
    /\ offset = 0
    /\ all_cases = <<>>
    /\ requests = <<>>
    /\ raw_df = Return(EmptyDataFrame)
    /\ fetch_error = ""
    /\ pc = "call"
    /\ df = EmptyDataFrame
    /\ bu_name = ""
    /\ summary = EmptyDataFrame
    /\ report = ""
    /\ metrics = NoMetrics
    /\ row = NoRow
    /\ final_status = ""
    /\ field_type = ""
    /\ found = ""
    /\ NoMapping
    /\ NoFilter
    /\ NoSession

\* api = get_api_client(); without a client pd.DataFrame() is returned
GetApiClient ==
    /\ pc = "call"
    /\ IF api
       THEN pc' = "loop" /\ UNCHANGED <<raw_df, fetch_error>>
       ELSE pc' = "returned" /\ raw_df' = Return(EmptyDataFrame) /\ fetch_error' = NoApiClient
    /\ UNCHANGED <<api, source, offset, all_cases, requests>>
    /\ UNCHANGED <<pipeline_vars, session_vars>>

\* one turn of the loop whose request is answered
GetCases ==
    /\ pc = "loop"
    /\ \E as_dict \in BOOLEAN :
         \E batch \in {BatchOf(get_cases(source, API_BATCH_SIZE, offset, as_dict))} :
            /\ requests' = Append(requests, offset)
            /\ all_cases' = all_cases \o batch
            /\ IF IsLastBatch(batch, API_BATCH_SIZE)
               THEN pc' = "collected" /\ offset' = offset
               ELSE pc' = "loop" /\ offset' = offset + API_BATCH_SIZE
    /\ UNCHANGED <<api, source, raw_df, fetch_error>>
    /\ UNCHANGED <<pipeline_vars, session_vars>>

\* one turn of the loop whose request raises: the except branch returns
GetCasesRaises ==
    /\ pc = "loop"
    /\ requests' = Append(requests, offset)
    /\ raw_df' = Return(fetch_except(all_cases))
    /\ fetch_error' = FetchError
    /\ pc' = "returned"
    /\ UNCHANGED <<api, source, offset, all_cases>>
    /\ UNCHANGED <<pipeline_vars, session_vars>>

\* after the loop: the table of the collected cases is returned
FetchReturn ==
    /\ pc = "collected"
    /\ raw_df' = Return(fetch_return(all_cases))
    /\ pc' = "returned"
    /\ UNCHANGED <<api, source, offset, all_cases, requests, fetch_error>>
    /\ UNCHANGED <<pipeline_vars, session_vars>>

NextFetch == GetApiClient \/ GetCases \/ GetCasesRaises \/ FetchReturn

SpecFetch == InitFetch /\ [][NextFetch]_vars

\* the call runs on: each step of the function is taken once it is enabled
SpecFetchFair == SpecFetch /\ WF_vars(NextFetch)

(***************************************************************************)
(* Specification of the dashboard session: every interaction reruns main   *)
(* with the values of the selector and of the update button.               *)
(***************************************************************************)
\* what fetch_data_recursive may return to load_data: pd.DataFrame() when the
\* fetch failed or found nothing, else the table of the cases
SessionCases ==
    {c \in Cases(CountrySchema) : c["priority_id"] \in {IntVal(4), IntVal(99)}}

SessionFetches ==
    {EmptyDataFrame}
        \cup {DataFrame(CountrySchema, <<c>>) : c \in SessionCases}
        \cup {DataFrame(NoJavaSchema, <<c>>) : c \in Cases(NoJavaSchema)}

InitSession ==
    /\ session_state = InitialSessionState
    /\ selected_bu = ""
    /\ update_clicked = FALSE
    /\ rendered = Render(InitialSessionState)
    /\ load_report = ""
    /\ pc = "session"
    /\ df = EmptyDataFrame
    /\ bu_name = ""
    /\ summary = EmptyDataFrame
    /\ report = ""
    /\ metrics = NoMetrics
    /\ row = NoRow
    /\ final_status = ""
    /\ field_type = ""
    /\ found = ""
    /\ NoMapping
    /\ NoFilter
    /\ NoFetch

\* a rerun of the script: main with the widget values of the interaction
Rerun ==
    /\ pc = "session"
    /\ \E selected \in BusinessUnits, clicked \in BOOLEAN, raw \in SessionFetches :
         \E res \in {main(session_state, selected, clicked, raw)} :
            /\ selected_bu' = selected
            /\ update_clicked' = clicked
            /\ session_state' = res.state
            /\ load_report' = res.report
            /\ rendered' = Render(res.state)
    /\ UNCHANGED <<pipeline_vars, fetch_vars, pc>>

NextSession == Rerun

SpecSession == InitSession /\ [][NextSession]_vars

(***************************************************************************)
(* Properties of the status resolver                                       *)
(***************************************************************************)
\* the three components of the row, None standing for an absent one
JavaOf(r) == RowGet(r, "Java_Status")
DesktopOf(r) == RowGet(r, "Testim_Desktop_Status")
MobileOf(r) == RowGet(r, "Testim_Mobile_Status")

\* the precedence list, first matching rule
FirstMatchingRule(java, desktop, mobile) ==
    CASE desktop = "Automated" /\ mobile = "Automated" -> "Automated - Testim Both"
      [] desktop = "Automated" /\ mobile # "Automated" -> "Automated - Testim Desktop"
      [] desktop # "Automated" /\ mobile = "Automated" -> "Automated - Testim Mobile"
      [] OTHER ->
            CASE java = "Automated" -> "Automated - Java"
              [] java # "Automated" /\ "N/A" \in {java, desktop, mobile} -> "N/A"
              [] java # "Automated" /\ "N/A" \notin {java, desktop, mobile}
                 /\ "To Be Automated" \in {java, desktop, mobile} -> "To Be Automated"
              [] OTHER -> "Not Automated"

\* C1: for every triple of statuses (each absent, Not Automated, To Be
\* Automated, Automated or N/A) determine_final_status returns the status of
\* the first matching rule of the precedence list, and the result is one of
\* the seven final statuses.
C1_FirstMatchingRule ==
    pc = "resolved" =>
        /\ final_status = FirstMatchingRule(JavaOf(row), DesktopOf(row), MobileOf(row))
        /\ final_status \in FinalStatuses

\* a row in which N/A and To Be Automated compete and N/A wins
C1_Witness ==
    /\ pc = "resolved"
    /\ JavaOf(row) = "To Be Automated"
    /\ DesktopOf(row) = "N/A"
    /\ MobileOf(row) = None
    /\ final_status = "N/A"

\* C8: the secondary framework overrides the primary one: a Testim status
\* that is Automated gives an 'Automated - Testim *' result whatever the Java
\* status, both give 'Automated - Testim Both', and 'Automated - Java' is
\* returned exactly when Java is Automated and neither Testim status is.
C8_TestimOverridesJava ==
    pc = "resolved" =>
        /\ (DesktopOf(row) = "Automated" \/ MobileOf(row) = "Automated")
              => final_status \in {"Automated - Testim Both", "Automated - Testim Desktop",
                                   "Automated - Testim Mobile"}
        /\ (DesktopOf(row) = "Automated" /\ MobileOf(row) = "Automated")
              => final_status = "Automated - Testim Both"
        /\ final_status = "Automated - Java"
              <=> (JavaOf(row) = "Automated" /\ DesktopOf(row) # "Automated"
                   /\ MobileOf(row) # "Automated")

\* Java and one Testim status are Automated: the Testim status wins
C8_Witness ==
    /\ pc = "resolved"
    /\ JavaOf(row) = "Automated"
    /\ DesktopOf(row) = "Not Automated"
    /\ MobileOf(row) = "Automated"
    /\ final_status = "Automated - Testim Mobile"

(***************************************************************************)
(* Properties of the field resolver                                        *)
(***************************************************************************)
\* the aliases of a category that the schema holds, by position in the list
PresentAliases(columns, t) ==
    LET possible == Get(FIELD_VARIATIONS, t, <<>>)
    IN {i \in 1..Len(possible) : \E j \in 1..Len(columns) : columns[j] = possible[i]}

\* C9: find_field returns the first alias of the category's list that the
\* schema holds, even when later aliases are present too, None when it
\* holds none, and the same answer for every ordering of the same columns.
C9_FirstAliasInPriorityOrder ==
    pc = "found" =>
        LET present == PresentAliases(df.columns, field_type)
        IN /\ present = {} => found = None
           /\ present # {} =>
                 /\ found = FIELD_VARIATIONS[field_type][CHOOSE i \in present : \A j \in present : i <= j]
           /\ \A c \in Schemas :
                 Range(c) = Range(df.columns) => find_field(DataFrame(c, <<>>), field_type) = found

\* both java aliases are columns, the later-priority one first in the schema
C9_Witness ==
    /\ pc = "found"
    /\ field_type = "java"
    /\ Len(df.columns) >= 2
    /\ df.columns[1] = "automation_status"
    /\ df.columns[2] = "custom_automation_status"
    /\ found = "custom_automation_status"

(***************************************************************************)
(* Properties of the pipeline                                              *)
(***************************************************************************)
\* the sum of Count over the rows of a table whose Status is in S
RECURSIVE TableCount(_, _)
TableCount(rows, S) ==
    IF Len(rows) = 0 THEN 0
    ELSE (IF Head(rows)["Status"] \in S THEN Head(rows)["Count"] ELSE 0)
         + TableCount(Tail(rows), S)

TotalCount(rows) == TableCount(rows, {rows[i]["Status"] : i \in DOMAIN rows})

\* the cases whose primary status value mapped to a status
ResolvablePrimary ==
    {i \in DOMAIN df.rows : "Java_Status" \in DOMAIN df.rows[i] /\ df.rows[i]["Java_Status"] # None}

\* C2: after process the Counts sum to the number of cases whose primary
\* status maps to a status; a case without one contributes to no row.
C2_CountIsResolvablePrimary ==
    (pc = "processed" /\ report # ProcessingError)
        => TotalCount(summary.rows) = Cardinality(ResolvablePrimary)

\* C3: on an input without any alias of the primary status process returns
\* a table without rows, reports the missing field (or the missing data) and
\* classifies no case, whatever the other columns and cells are.
C3_NoPrimaryFieldNoRows ==
    (pc = "processed" /\ find_field(df, "java") = None)
        => /\ Len(summary.rows) = 0
           /\ report \in {NoData, NoJavaField}
           /\ "Status" \notin Range(df.columns)

\* a batch with a case, a device cell no mapper accepts and no primary alias
C3_Witness ==
    /\ pc = "processed"
    /\ df.columns = NoJavaSchema
    /\ Len(df.rows) = 2
    /\ df.rows[1]["custom_devices"].k = "list"
    /\ df.rows[2]["custom_devices"].k = "int"
    /\ report = NoJavaField
    /\ summary = EmptyDataFrame

\* C4: whatever the device, country and priority cells are, the mappers
\* resolve to a label, the case is retained and the run is not aborted: a
\* non-empty batch with a primary-status column is always summarised.
C4_NonCriticalNeverAborts ==
    (pc = "processed" /\ Len(df.rows) > 0 /\ find_field(df, "java") # None)
        => /\ report = ""
           /\ TotalCount(summary.rows) = Len(df.rows)

\* every count and ratio of the four metrics results is there and is zero
ZeroedMetrics(m) ==
    /\ \A key \in {"total", "total_automated", "total_testim", "to_be_automated",
                   "not_applicable", "not_automated", "effective_total"} :
            key \in DOMAIN m.overall /\ m.overall[key] = 0
    /\ "coverage" \in DOMAIN m.overall /\ m.overall.coverage = Zero
    /\ \A key \in {"testim_total", "total_testim", "desktop", "mobile", "both"} :
            key \in DOMAIN m.testim /\ m.testim[key] = 0
    /\ "testim_coverage" \in DOMAIN m.testim /\ m.testim.testim_coverage = Zero
    /\ \A device \in Devices :
            /\ device \in DOMAIN m.device
            /\ m.device[device].total = 0
            /\ m.device[device].automated = 0
            /\ m.device[device].coverage = Zero
    /\ Len(m.epic.pivot.rows) = 0

\* C5: given zero raw cases process returns an empty table and each metrics
\* function applied to that table gives zeroed results.
C5_ZeroCasesZeroedMetrics ==
    (pc = "measured" /\ Len(df.rows) = 0)
        => /\ Len(summary.rows) = 0
           /\ ZeroedMetrics(metrics)

\* C10: process emits exactly one row per distinct (Epic, Status, Device,
\* Country, Priority) tuple of the mapped cases, whose Count is the number of
\* cases mapped to the tuple: no two rows share a key, every Count is >= 1.
C10_OneRowPerDistinctKey ==
    (pc = "processed" /\ report = "")
        => /\ \A i \in DOMAIN df.rows :
                Cardinality({g \in DOMAIN summary.rows :
                                KeyOf(summary.rows[g]) = KeyOf(df.rows[i])}) = 1
           /\ \A g \in DOMAIN summary.rows :
                /\ summary.rows[g]["Count"] >= 1
                /\ summary.rows[g]["Count"]
                      = Cardinality({i \in DOMAIN df.rows :
                                        KeyOf(df.rows[i]) = KeyOf(summary.rows[g])})
           /\ \A g, h \in DOMAIN summary.rows :
                g # h => KeyOf(summary.rows[g]) # KeyOf(summary.rows[h])

\* two cases with different raw cells are mapped to one tuple and one row
C10_Witness ==
    /\ pc = "processed"
    /\ report = ""
    /\ Len(df.rows) = 2
    /\ df.columns[3] = "custom_devices"
    /\ df.rows[1]["custom_devices"] = IntVal(7)
    /\ df.rows[2]["custom_devices"] = StrVal("tablet")
    /\ Len(summary.rows) = 1
    /\ summary.rows[1]["Count"] = 2

(***************************************************************************)
(* Properties of the metrics                                               *)
(***************************************************************************)
AutomatedStatuses == {"Automated - Java", "Automated - Testim Desktop",
                      "Automated - Testim Mobile", "Automated - Testim Both"}

\* C6: for every summary table over the seven final statuses with
\* non-negative Counts, total_automated + to_be_automated + not_automated +
\* not_applicable = total, total_automated being the sum of the four
\* 'Automated - *' counts and total_testim the sum of the three Testim ones.
C6_StatusCountsPartitionTotal ==
    pc = "measured" =>
        LET m == metrics.overall
        IN /\ m.total_automated + m.to_be_automated + m.not_automated + m.not_applicable = m.total
           /\ m.total = TotalCount(summary.rows)
           /\ m.total_automated = TableCount(summary.rows, AutomatedStatuses)
           /\ m.total_testim = TableCount(summary.rows, AutomatedStatuses \ {"Automated - Java"})

\* a table with a Testim Both row and a row of another status
C6_Witness ==
    /\ pc = "measured"
    /\ Len(summary.rows) = 2
    /\ summary.rows[1]["Status"] = "Automated - Testim Both"
    /\ summary.rows[1]["Count"] = 2
    /\ summary.rows[2]["Status"] = "N/A"
    /\ summary.rows[2]["Count"] = 1
    /\ metrics.overall.total = 3
    /\ metrics.overall.total_testim = 2

\* f * d = n exactly, for naturals n and d > 0
FloatIsQuotient(f, n, d) ==
    IF Len(f.sig) = 0 THEN n = 0
    ELSE IF f.exp <= 0
         THEN StripZeros(MulSmall(f.sig, d, 0)) = NatToBits(n) \o Zeros(0 - f.exp)
    ELSE StripZeros(MulSmall(f.sig, d, 0) \o Zeros(f.exp)) = NatToBits(n)

\* | f * d - n | <= n / 2^51, for naturals n and d > 0
FloatNearQuotient(f, n, d) ==
    IF Len(f.sig) = 0 THEN n = 0
    ELSE LET shift == 0 - f.exp
             lhs == MulSmall(f.sig, d, 0) \o Zeros(51)
             low == MulSmall([i \in 1..51 |-> 1], n, 0) \o Zeros(shift)
             high == MulSmall(<<1>> \o Zeros(50) \o <<1>>, n, 0) \o Zeros(shift)
         IN shift >= 0 /\ BitsLessEq(low, lhs) /\ BitsLessEq(lhs, high)

\* for every pair of counts a, b: the float64 a / b * 100 times b is 100 * a
ExactPercentages ==
    [p \in CountPairs |-> FloatIsQuotient(Percentages[p], 100 * p[1], p[2])] @@ <<>>

\* for every pair of counts a, b: the float64 a / b * 100 times b is within
\* 100 * a / 2^51 of 100 * a
NearPercentages ==
    [p \in CountPairs |-> FloatNearQuotient(Percentages[p], 100 * p[1], p[2])] @@ <<>>

\* coverage is the float64 value of total_automated / effective_total * 100
IsPercentageOf(m) ==
    m.coverage = Percentages[<<m.total_automated, m.effective_total>>]

\* C7 (as stated): effective_total = total - not_applicable; coverage is 0
\* when effective_total is 0 and otherwise exactly total_automated /
\* effective_total * 100, i.e. coverage * effective_total = 100 * total_automated.
C7_CoverageExact ==
    pc = "measured" =>
        LET m == metrics.overall
        IN /\ m.effective_total = m.total - m.not_applicable
           /\ m.effective_total >= 0
           /\ m.effective_total = 0 => m.coverage = Zero
           /\ m.effective_total # 0 =>
                 /\ IsPercentageOf(m)
                 /\ ExactPercentages[<<m.total_automated, m.effective_total>>]

\* C7 (amended): effective_total = total - not_applicable; coverage is 0 when
\* effective_total is 0 and otherwise the float64 value of total_automated /
\* effective_total * 100, which is within a relative error of 2^-51 of the
\* exact quotient: | coverage * effective_total - 100 * total_automated | <=
\* 100 * total_automated / 2^51. No division by zero: coverage is a number
\* for every table.
C7_CoverageWithinRounding ==
    pc = "measured" =>
        LET m == metrics.overall
        IN /\ m.effective_total = m.total - m.not_applicable
           /\ m.effective_total >= 0
           /\ m.effective_total = 0 => m.coverage = Zero
           /\ m.effective_total # 0 =>
                 /\ IsPercentageOf(m)
                 /\ NearPercentages[<<m.total_automated, m.effective_total>>]

\* one automated case out of three effective ones: coverage is
\* 33.33333333333333, a float below 100/3 that rounds to 33.3
C7_Witness ==
    /\ pc = "measured"
    /\ metrics.overall.total_automated = 1
    /\ metrics.overall.effective_total = 3
    /\ ~FloatIsQuotient(metrics.overall.coverage, 100, 3)
    /\ FloatLess(metrics.overall.coverage, FloatDiv(334, 10))
    /\ Tenths(metrics.overall.coverage) = 333

(***************************************************************************)
(* Properties of the value mappers                                         *)
(***************************************************************************)
\* the label the scalar country mapper returns for one element (None when it
\* raises)
ScalarCountry(v, bu) == map_country_id(v, bu).val

\* C11: map_country_id on a collection maps every element as the scalar
\* country mapper maps that element alone and joins the labels in input order
\* with ', '; an empty collection yields 'Unknown'.
C11_ElementwiseAsScalar ==
    (pc = "mapped" /\ mapper = "map_country_id" /\ raw_value.k = "list")
        => /\ mapped.exc = ""
           /\ Len(raw_value.l) = 0 => mapped.val = "Unknown"
           /\ Len(raw_value.l) > 0 =>
                 mapped.val = Join(", ", [i \in DOMAIN raw_value.l |->
                                             ScalarCountry(raw_value.l[i], bu_name)])

\* the code of a scalar as text, and its integer form when it is a number
CodeText(v) == strip(str(v))
IsNumberText(t) == ParseFloat(t).kind \in {"num", "inf"} \/ lower(t) = "nan"
IntegerForm(t) == IF ParseFloat(t).kind = "num" THEN IntToStr(ParseFloat(t).n) ELSE None

\* C12: on a scalar map_country_id uses only the table of the given business
\* unit: a missing value maps to 'Unknown', a code found in the table (as a
\* string, or a number whose integer form is a key) to its abbreviation, and
\* every code not found to 'ID_' followed by the code.
C12_ScalarCountryByUnitTable ==
    (pc = "mapped" /\ mapper = "map_country_id" /\ raw_value.k # "list")
        => LET table == COUNTRY_MAPPINGS[bu_name]
               code == CodeText(raw_value)
           IN /\ mapped.exc = ""
              /\ raw_value.k = "null" => mapped.val = "Unknown"
              /\ (raw_value.k # "null" /\ code \in DOMAIN table) => mapped.val = table[code]
              /\ (raw_value.k # "null" /\ code \notin DOMAIN table
                    /\ IntegerForm(code) \in DOMAIN table) => mapped.val = table[IntegerForm(code)]
              /\ (raw_value.k # "null" /\ code \notin DOMAIN table
                    /\ IntegerForm(code) \notin DOMAIN table) => mapped.val = "ID_" \o code

\* a number given as int, float or numeric text: its value when it is integral
IsNumber(v) == v.k \in {"int", "float"} \/ (v.k = "str" /\ IsNumberText(strip(v.s)))
IsIntegral(v) ==
    \/ v.k = "int"
    \/ v.k = "float" /\ v.f = 0
    \/ v.k = "str" /\ LET t == strip(v.s)
                          dot == IndexIn(".", t)
                      IN /\ ParseFloat(t).kind = "num"
                         /\ dot > 0 => \A i \in (dot + 1)..Len(t) : CharAt(t, i) = "0"
IntegralValue(v) == IF v.k = "str" THEN ParseFloat(v.s).n ELSE v.n

\* the label of a text by substring, 'highest' before 'high' before 'medium'
PriorityOfText(t) ==
    CASE Contains(lower(t), "highest") -> "Highest"
      [] ~Contains(lower(t), "highest") /\ Contains(lower(t), "high") -> "High"
      [] ~Contains(lower(t), "high") /\ Contains(lower(t), "medium") -> "Medium"
      [] OTHER -> "Unknown"

\* C13: map_priority maps numeric 3, 4, 5 (int, integral float or numeric
\* string) to High, Highest, Medium and any other number to Unknown; a
\* non-numeric string by case-insensitive substring, 'highest' before 'high'
\* before 'medium', and otherwise to Unknown; a missing value to Unknown.
C13_PriorityByCodeThenText ==
    (pc = "mapped" /\ mapper = "map_priority" /\ raw_value.k # "list")
        => /\ mapped.exc = ""
           /\ raw_value.k = "null" => mapped.val = "Unknown"
           /\ (IsNumber(raw_value) /\ IsIntegral(raw_value)) =>
                 mapped.val = Get(PRIORITY_MAPPINGS, IntegralValue(raw_value), "Unknown")
           /\ (IsNumber(raw_value) /\ ~IsIntegral(raw_value)) => mapped.val = "Unknown"
           /\ (raw_value.k = "str" /\ ~IsNumber(raw_value)) =>
                 mapped.val = PriorityOfText(raw_value.s)

\* C14: map_device_status maps code 1 to Desktop, 2 to Mobile and 3 to Both
\* (int, integral float or numeric string) and every other or missing value
\* to Both; the result is always one of Desktop, Mobile, Both.
C14_DeviceByCodeElseBoth ==
    (pc = "mapped" /\ mapper = "map_device_status")
        => /\ mapped.exc = ""
           /\ mapped.val \in Devices
           /\ (IsNumber(raw_value) /\ IsIntegral(raw_value)) =>
                 mapped.val = Get(DEVICE_MAPPINGS, IntegralValue(raw_value), "Both")
           /\ ~(IsNumber(raw_value) /\ IsIntegral(raw_value)) => mapped.val = "Both"

(***************************************************************************)
(* Properties of the epic, device and Testim metrics                       *)
(***************************************************************************)
\* the sum of Count over the rows of a table with the given Epic and a Status in S
RECURSIVE EpicCount(_, _, _)
EpicCount(rows, epic, S) ==
    IF Len(rows) = 0 THEN 0
    ELSE (IF Head(rows)["Epic"] = epic /\ Head(rows)["Status"] \in S
          THEN Head(rows)["Count"] ELSE 0)
         + EpicCount(Tail(rows), epic, S)

\* the numbers of tenths nearest to a / b * 100 (two of them on a tie)
NearestTenths(a, b) ==
    {t \in {(1000 * a) \div b, ((1000 * a) \div b) + 1} :
        /\ 2 * (t * b - 1000 * a) <= b
        /\ 2 * (1000 * a - t * b) <= b}

\* for every pair of counts a, b: the floats of a / b * 100 rounded to one decimal
OneDecimalPercentages ==
    [p \in CountPairs |-> {FloatDiv(t, 10) : t \in NearestTenths(p[1], p[2])}] @@ <<>>

\* r is the pivot row of its epic over the table rows
IsPivotRowOf(r, rows) ==
    /\ r["Automated"] = EpicCount(rows, r["Epic"], AutomatedStatuses)
    /\ r["To Be Automated"] = EpicCount(rows, r["Epic"], {"To Be Automated"})
    /\ r["N/A"] = EpicCount(rows, r["Epic"], {"N/A"})
    /\ r["Not Automated"] = EpicCount(rows, r["Epic"], {"Not Automated"})
    /\ r["TOTAL"] = r["Automated"] + r["To Be Automated"] + r["N/A"] + r["Not Automated"]
    /\ r["EFFECTIVE TOTAL"] = r["TOTAL"] - r["N/A"]
    /\ r["EFFECTIVE TOTAL"] >= 0
    /\ r["EFFECTIVE TOTAL"] = 0 => r["COVERAGE %"] = Zero
    /\ r["EFFECTIVE TOTAL"] # 0 =>
          r["COVERAGE %"] \in OneDecimalPercentages[<<r["Automated"], r["EFFECTIVE TOTAL"]>>]

\* C15: calculate_epic_metrics returns one pivot row per distinct Epic of the
\* table, with Automated the sum of the 'Automated - *' counts of the epic,
\* TOTAL the sum of the four groups, EFFECTIVE TOTAL = TOTAL - N/A and
\* COVERAGE % = Automated / EFFECTIVE TOTAL * 100 rounded to one decimal, 0
\* when EFFECTIVE TOTAL is 0 (a number for every epic).
C15_EpicPivotPerEpic ==
    pc = "measured" =>
        LET rows == metrics.epic.pivot.rows
        IN /\ \A i \in DOMAIN summary.rows :
                Cardinality({g \in DOMAIN rows : rows[g]["Epic"] = summary.rows[i]["Epic"]}) = 1
           /\ \A g \in DOMAIN rows :
                /\ \E i \in DOMAIN summary.rows : summary.rows[i]["Epic"] = rows[g]["Epic"]
                /\ IsPivotRowOf(rows[g], summary.rows)

\* an epic of 1 automated case out of 3 effective ones: 33.3
C15_Witness ==
    /\ pc = "measured"
    /\ Len(metrics.epic.pivot.rows) = 1
    /\ metrics.epic.pivot.rows[1]["Automated"] = 1
    /\ metrics.epic.pivot.rows[1]["EFFECTIVE TOTAL"] = 3
    /\ metrics.epic.pivot.rows[1]["COVERAGE %"] = FloatDiv(333, 10)

\* the sum of Count over the rows of a table with the given Device and a Status in S
RECURSIVE DeviceCount(_, _, _)
DeviceCount(rows, device, S) ==
    IF Len(rows) = 0 THEN 0
    ELSE (IF Head(rows)["Device"] = device /\ Head(rows)["Status"] \in S
          THEN Head(rows)["Count"] ELSE 0)
         + DeviceCount(Tail(rows), device, S)

\* f is 0 when b is 0 and otherwise the float64 value of a / b * 100, which is
\* within rounding of the exact quotient
IsGuardedPercentage(f, a, b) ==
    /\ b = 0 => f = Zero
    /\ b # 0 => /\ f = Percentages[<<a, b>>]
                /\ NearPercentages[<<a, b>>]

\* C16: calculate_device_metrics returns, for each of Desktop, Mobile and Both
\* (all three keys present), automated = the sum of Count over the rows of the
\* device with an 'Automated - *' status, total = the sum of Count over the
\* rows of the device, coverage = automated / total * 100 and 0 when total is
\* 0; automated never exceeds total.
C16_DeviceMetricsPerDevice ==
    pc = "measured" =>
        /\ DOMAIN metrics.device = Devices
        /\ \A device \in Devices :
              LET m == metrics.device[device]
              IN /\ m.automated = DeviceCount(summary.rows, device, AutomatedStatuses)
                 /\ m.total = DeviceCount(summary.rows, device, FinalStatuses)
                 /\ m.automated <= m.total
                 /\ IsGuardedPercentage(m.coverage, m.automated, m.total)

\* Desktop has 1 automated case out of 3, Mobile has no row: coverage 0
C16_Witness ==
    /\ pc = "measured"
    /\ metrics.device["Desktop"].automated = 1
    /\ metrics.device["Desktop"].total = 3
    /\ FloatLess(FloatOfInt(33), metrics.device["Desktop"].coverage)
    /\ \E i \in DOMAIN summary.rows :
          summary.rows[i]["Device"] = "Desktop" /\ summary.rows[i]["Status"] = "Not Automated"
    /\ metrics.device["Mobile"].total = 0
    /\ metrics.device["Mobile"].coverage = Zero

TestimStatuses == {"Automated - Testim Desktop", "Automated - Testim Mobile",
                   "Automated - Testim Both"}

\* C17: calculate_testim_metrics yields total_testim = the sum of the three
\* 'Automated - Testim *' counts, testim_total = total_testim + to_be_automated
\* + not_automated (N/A and 'Automated - Java' rows are not counted),
\* testim_coverage = total_testim / testim_total * 100 (0 when testim_total is
\* 0) and the desktop, mobile and both percentages of total_testim, all 0
\* when total_testim is 0.
C17_TestimUniverse ==
    pc = "measured" =>
        LET m == metrics.testim
            rows == summary.rows
        IN /\ m.desktop = TableCount(rows, {"Automated - Testim Desktop"})
           /\ m.mobile = TableCount(rows, {"Automated - Testim Mobile"})
           /\ m.both = TableCount(rows, {"Automated - Testim Both"})
           /\ m.total_testim = TableCount(rows, TestimStatuses)
           /\ m.to_be_automated = TableCount(rows, {"To Be Automated"})
           /\ m.not_automated = TableCount(rows, {"Not Automated"})
           /\ m.testim_total = m.total_testim + m.to_be_automated + m.not_automated
           /\ m.testim_total = TableCount(rows, FinalStatuses \ {"N/A", "Automated - Java"})
           /\ IsGuardedPercentage(m.testim_coverage, m.total_testim, m.testim_total)
           /\ IsGuardedPercentage(m.desktop_pct, m.desktop, m.total_testim)
           /\ IsGuardedPercentage(m.mobile_pct, m.mobile, m.total_testim)
           /\ IsGuardedPercentage(m.both_pct, m.both, m.total_testim)

\* a Testim Desktop row beside an 'Automated - Java' row that is not counted
C17_Witness ==
    /\ pc = "measured"
    /\ Len(summary.rows) = 2
    /\ summary.rows[1]["Status"] = "Automated - Testim Desktop"
    /\ summary.rows[1]["Count"] = 1
    /\ summary.rows[2]["Status"] = "Automated - Java"
    /\ summary.rows[2]["Count"] = 2
    /\ metrics.testim.testim_total = 1
    /\ metrics.testim.testim_coverage = FloatOfInt(100)
    /\ metrics.testim.mobile_pct = Zero

(***************************************************************************)
(* Properties of the epic search                                           *)
(***************************************************************************)
\* text contains sub when letter case is ignored
ContainsIgnoreCase(text, sub) == Contains(lower(text), lower(sub))

\* the rows whose epic name contains the term, in order
RECURSIVE RowsContaining(_, _)
RowsContaining(rows, term) ==
    IF Len(rows) = 0 THEN <<>>
    ELSE (IF ContainsIgnoreCase(Head(rows)["Epic"], term) THEN <<Head(rows)>> ELSE <<>>)
         \o RowsContaining(Tail(rows), term)

\* C18: for every non-empty search string filter_epic_by_search returns
\* exactly the pivot rows whose epic name contains the string as a substring
\* when letter case is ignored, in the pivot's order and with unchanged
\* values; a row whose name does not contain it is never returned.
C18_FilterIsSubstringMatch ==
    [][(FilterEpics /\ search # "")
          => filtered'.rows = RowsContaining(epic_pivot.rows, search)]_vars

\* the COVERAGE % column of the rows
Coverages(rows) == [i \in DOMAIN rows |-> rows[i]["COVERAGE %"]]

\* an empty search term returns the pivot as it is
EmptySearchReturnsPivot == (FilterEpics /\ search = "") => filtered' = epic_pivot

C20_InputsUnchanged ==
    [][/\ Process => df' = df
       /\ CalculateMetrics => summary' = summary]_vars

(***************************************************************************)
(* Further properties of the status resolver                               *)
(***************************************************************************)
\* the resolver without its rules 2 and 3
WithoutRules2And3(r) ==
    LET java_status == RowGet(r, "Java_Status")
        testim_desktop == RowGet(r, "Testim_Desktop_Status")
        testim_mobile == RowGet(r, "Testim_Mobile_Status")
    IN IF testim_desktop = "Automated" /\ testim_mobile = "Automated" THEN "Automated - Testim Both"
       ELSE IF testim_desktop = "Automated" THEN "Automated - Testim Desktop"
       ELSE IF testim_mobile = "Automated" THEN "Automated - Testim Mobile"
       ELSE IF java_status = "Automated" THEN "Automated - Java"
       ELSE IF java_status = "N/A" \/ testim_desktop = "N/A" \/ testim_mobile = "N/A" THEN "N/A"
       ELSE IF java_status = "To Be Automated" \/ testim_desktop = "To Be Automated"
               \/ testim_mobile = "To Be Automated" THEN "To Be Automated"
       ELSE "Not Automated"

\* C21: rules 2 and 3 of the precedence are redundant: for every triple of
\* statuses determine_final_status returns what the resolver without these
\* two branches returns.
C21_Rules2And3Redundant ==
    pc = "resolved" => final_status = WithoutRules2And3(row)

\* a row on which rule 2 fires: desktop and Java Automated, mobile not
C21_Witness ==
    /\ pc = "resolved"
    /\ JavaOf(row) = "Automated"
    /\ DesktopOf(row) = "Automated"
    /\ MobileOf(row) = "To Be Automated"
    /\ final_status = "Automated - Testim Desktop"

(***************************************************************************)
(* Further properties of the pipeline                                      *)
(***************************************************************************)
\* the final status of a case that has a Java status only
ByJavaAlone(java_status) ==
    CASE java_status = "Automated" -> "Automated - Java"
      [] java_status = "N/A" -> "N/A"
      [] java_status = "To Be Automated" -> "To Be Automated"
      [] java_status = "Not Automated" -> "Not Automated"

\* the batch had a Java column and cases, so process went into its mapping steps
WasMapped == pc = "processed" /\ Len(df.rows) > 0 /\ find_field(df, "java") # None

\* C22: when an alias of the Testim desktop or mobile status is absent from
\* the columns process does not fail on it and every case has no status for
\* that field; when both are absent the final status of a case is decided by
\* its Java status alone and no row has an 'Automated - Testim *' status.
C22_AbsentTestimIsNoStatus ==
    WasMapped =>
        /\ find_field(df, "testim_desktop") = None =>
              \A i \in DOMAIN df.rows :
                  /\ RowGet(df.rows[i], "Testim_Desktop_Status") = None
                  /\ "Status" \in DOMAIN df.rows[i]
        /\ find_field(df, "testim_mobile") = None =>
              \A i \in DOMAIN df.rows :
                  /\ RowGet(df.rows[i], "Testim_Mobile_Status") = None
                  /\ "Status" \in DOMAIN df.rows[i]
        /\ (find_field(df, "testim_desktop") = None /\ find_field(df, "testim_mobile") = None) =>
              /\ \A i \in DOMAIN df.rows :
                    /\ df.rows[i]["Status"] \notin TestimStatuses
                    /\ df.rows[i]["Java_Status"] \in Statuses =>
                          df.rows[i]["Status"] = ByJavaAlone(df.rows[i]["Java_Status"])
              /\ \A g \in DOMAIN summary.rows : summary.rows[g]["Status"] \notin TestimStatuses

\* a batch without Testim columns whose case is Automated in Java, and one
\* that has the mobile column only
C22_Witness ==
    /\ pc = "processed"
    /\ df.rows # <<>>
    /\ report = ""
    /\ \/ /\ find_field(df, "testim_desktop") = None
          /\ find_field(df, "testim_mobile") = None
          /\ df.rows[1]["Java_Status"] = "Automated"
          /\ summary.rows[1]["Status"] = "Automated - Java"
       \/ /\ find_field(df, "testim_desktop") = None
          /\ find_field(df, "testim_mobile") # None
          /\ df.rows[1]["Testim_Desktop_Status"] = None
          /\ summary.rows[1]["Status"] = "Automated - Testim Mobile"

(***************************************************************************)
(* Further properties of the mappers                                       *)
(***************************************************************************)
\* a finite number, given as a float or as text, that is not an integer
IsFraction(v) ==
    \/ v.k = "float" /\ v.f # 0
    \/ v.k = "str" /\ ParseFloat(v.s).kind = "num" /\ ~IsIntegral(v)

\* C23: a numeric value that does not represent an integer (1.5, '3.7') fails
\* to map and yields the default of the category (device Both, priority
\* Unknown, status absent), never the label of a neighbouring integer code.
C23_FractionsGetDefault ==
    (pc = "mapped" /\ IsFraction(raw_value)) =>
        /\ mapper = "map_device_status" => mapped = Return("Both")
        /\ mapper = "map_priority" => mapped = Return("Unknown")
        /\ mapper \in {"map_automation_status_java", "map_automation_status_testim"} =>
              mapped = Return(None)

\* the status of each code of the Java table, as the code table is documented
StatusOfCode(code) ==
    CASE code \in {1, 7} -> "Not Automated"
      [] code \in {2, 5, 6, 10} -> "To Be Automated"
      [] code \in {3, 8, 9} -> "Automated"
      [] code = 4 -> "N/A"
      [] OTHER -> None

C25_PivotSortedByCoverage ==
    pc = "measured" =>
        LET rows == metrics.epic.pivot.rows
        IN \A i, j \in DOMAIN rows :
              i < j => ~FloatLess(rows[i]["COVERAGE %"], rows[j]["COVERAGE %"])

\* two epics of which the second in name order has the higher coverage
C25_Witness ==
    /\ pc = "measured"
    /\ Len(metrics.epic.pivot.rows) = 2
    /\ metrics.epic.pivot.rows[1]["Epic"] = "Login"
    /\ metrics.epic.pivot.rows[2]["Epic"] = "Cart"
    /\ FloatLess(metrics.epic.pivot.rows[2]["COVERAGE %"], metrics.epic.pivot.rows[1]["COVERAGE %"])

\* the fields of the metrics that are sums of the Count column
OverallCounts == {"total", "automated_java", "automated_testim_desktop",
                  "automated_testim_mobile", "automated_testim_both", "total_automated",
                  "total_testim", "to_be_automated", "not_applicable", "not_automated",
                  "effective_total"}
TestimCounts == {"testim_total", "total_testim", "desktop", "mobile", "both",
                 "to_be_automated", "not_automated"}
DeviceCounts == {"automated", "total"}
PivotCounts == {"Automated", "To Be Automated", "N/A", "Not Automated", "TOTAL",
                "EFFECTIVE TOTAL"}

\* the summary table with the rows in the order p, and its parts before and
\* after row k
Permuted(d, p) == DataFrame(d.columns, [i \in DOMAIN d.rows |-> d.rows[p[i]]])
FirstRows(d, k) == DataFrame(d.columns, SubSeq(d.rows, 1, k))
LastRows(d, k) == DataFrame(d.columns, SubSeq(d.rows, k + 1, Len(d.rows)))

\* the value of a count column for an epic in a pivot, 0 for an epic the pivot lacks
PivotCountOf(rows, epic, c) ==
    IF \E g \in DOMAIN rows : rows[g]["Epic"] = epic
    THEN rows[CHOOSE g \in DOMAIN rows : rows[g]["Epic"] = epic][c]
    ELSE 0

\* every count field of m is the sum of that field in a and in b
IsSumOfCounts(m, a, b) ==
    /\ \A f \in OverallCounts : m.overall[f] = a.overall[f] + b.overall[f]
    /\ \A f \in TestimCounts : m.testim[f] = a.testim[f] + b.testim[f]
    /\ \A dev \in Devices : \A f \in DeviceCounts :
          m.device[dev][f] = a.device[dev][f] + b.device[dev][f]
    /\ \A g \in DOMAIN m.epic.pivot.rows : \A c \in PivotCounts :
          m.epic.pivot.rows[g][c] =
              PivotCountOf(a.epic.pivot.rows, m.epic.pivot.rows[g]["Epic"], c)
              + PivotCountOf(b.epic.pivot.rows, m.epic.pivot.rows[g]["Epic"], c)
    /\ \A r \in Range(a.epic.pivot.rows) \cup Range(b.epic.pivot.rows) :
          \E h \in DOMAIN m.epic.pivot.rows : m.epic.pivot.rows[h]["Epic"] = r["Epic"]

\* C26: the four metrics reductions are independent of the order of the
\* summary rows, the same results for every permutation of the rows, and
\* additive: every count computed over the concatenation of two tables is the
\* sum of that count over each of the two.
C26_OrderIndependentAdditive ==
    (pc = "measured" /\ HasColumns(summary, {"Epic", "Status", "Device", "Count"})) =>
        /\ \A p \in Orders(Len(summary.rows)) :
              /\ metrics \in AllMetrics(Permuted(summary, p))
              /\ AllMetrics(Permuted(summary, p)) = AllMetrics(summary)
        /\ \A k \in 0..Len(summary.rows) :
              \A a \in AllMetrics(FirstRows(summary, k)) :
                 \A b \in AllMetrics(LastRows(summary, k)) :
                    IsSumOfCounts(metrics, a, b)

\* two rows of one epic, device and status that differ in their counts: the
\* total is the sum of the two rows in either order
C26_Witness ==
    /\ pc = "measured"
    /\ Len(summary.rows) = 2
    /\ summary.rows[1]["Epic"] = summary.rows[2]["Epic"]
    /\ summary.rows[1]["Status"] = "Automated - Java"
    /\ summary.rows[2]["Status"] = "Automated - Java"
    /\ summary.rows[1]["Count"] = 1
    /\ summary.rows[2]["Count"] = 2
    /\ metrics.overall["total_automated"] = 3
    /\ metrics.epic.pivot.rows[1]["Automated"] = 3

(***************************************************************************)
(* Properties of the fetch                                                 *)
(***************************************************************************)
\* the offsets 0, L, 2L, ... of floor(n / L) + 1 requests
ExpectedRequests(n) ==
    [i \in 1..((n \div API_BATCH_SIZE) + 1) |-> (i - 1) * API_BATCH_SIZE]

IsPrefix(s, t) == Len(s) <= Len(t) /\ SubSeq(t, 1, Len(s)) = s

\* with a client and no request raising, the requests made so far are the
\* first of the expected ones, all of them once the loop has ended, and the
\* table returned holds the cases of the suite in its order
FetchPaged ==
    (api /\ fetch_error = "" /\ pc \in {"loop", "collected", "returned"}) =>
        /\ IsPrefix(requests, ExpectedRequests(Len(source)))
        /\ pc \in {"collected", "returned"} => requests = ExpectedRequests(Len(source))
        /\ pc = "returned" =>
              raw_df = Return(IF Len(source) = 0 THEN EmptyDataFrame
                              ELSE DataFrame(<<"id">>, source))

\* C27: against a suite of N cases that honours offset and limit,
\* fetch_data_recursive requests the offsets 0, L, 2L, ... with
\* L = API_BATCH_SIZE, stops at the first batch that is empty or shorter than
\* L, and so terminates after exactly floor(N / L) + 1 requests; the table
\* returned holds all N cases once, in the order of the suite, and is the
\* empty table when N = 0.
C27_PagesUntilShortBatch == []FetchPaged /\ <>(pc = "returned")

\* a suite of exactly two full pages: the third request finds the empty batch
C27_Witness ==
    /\ pc = "returned"
    /\ fetch_error = ""
    /\ Len(source) = 2 * API_BATCH_SIZE
    /\ requests = <<0, API_BATCH_SIZE, 2 * API_BATCH_SIZE>>
    /\ raw_df.val.rows = source

\* C28: when the API client is unavailable, or a page request raises, on the
\* first page or a later one, fetch_data_recursive returns an empty table and
\* raises nothing: the pages collected before the failure are discarded, no
\* partial result is returned.
C28_FailedFetchIsEmpty ==
    (pc = "returned" /\ (~api \/ fetch_error # "")) => raw_df = Return(EmptyDataFrame)

\* the second request raises after a full first page was collected
C28_Witness ==
    /\ pc = "returned"
    /\ fetch_error = FetchError
    /\ requests = <<0, API_BATCH_SIZE>>
    /\ Len(all_cases) = API_BATCH_SIZE
    /\ raw_df = Return(EmptyDataFrame)

(***************************************************************************)
(* Properties of the dashboard session                                     *)
(***************************************************************************)
\* d is a non-empty summary that process returns for the business unit
IsSummaryFor(d, bu) ==
    /\ \E raw \in SessionFetches : ~IsEmpty(raw) /\ d = process(raw, bu).ret
    /\ ~IsEmpty(d)

\* C29: after any sequence of reruns (update clicks, changes of the business
\* unit, loads that succeed or fail) data_loaded = True implies that
\* df_summary is a non-empty summary produced by process for the business
\* unit in current_bu; a failed fetch or an empty result of process sets
\* data_loaded to False, so that the summary of an earlier load is not
\* rendered after a failed one.
C29_LoadedMeansCurrentSummary ==
    /\ session_state.data_loaded =>
          IsSummaryFor(session_state.df_summary, session_state.current_bu)
    /\ load_report \in {FetchFailed, NoDataAfterProcessing} =>
          /\ ~session_state.data_loaded
          /\ rendered.view = "info"
    /\ rendered.view = "dashboard" =>
          /\ session_state.data_loaded
          /\ rendered.df = session_state.df_summary
          /\ rendered.bu = session_state.current_bu

\* a failed fetch after a load that succeeded: the stored summary stays in
\* the session and is not rendered
C29_Witness ==
    /\ load_report = FetchFailed
    /\ session_state.current_bu \in BusinessUnits
    /\ ~session_state.data_loaded
    /\ rendered.view = "info"

(***************************************************************************)
(* Agreement of the metrics                                                *)
(***************************************************************************)
\* the sum of a column over the rows of a pivot
RECURSIVE PivotSum(_, _)
PivotSum(rows, c) ==
    IF Len(rows) = 0 THEN 0 ELSE Head(rows)[c] + PivotSum(Tail(rows), c)

\* C30: for every summary table produced by process the metrics agree: the
\* Desktop, Mobile and Both totals of calculate_device_metrics sum to the
\* total of calculate_overall_metrics and their automated counts to its
\* total_automated, and the TOTAL column of the epic pivot sums to that total
\* and its Automated column to total_automated.
C30_MetricsAgree ==
    (pc = "measured" /\ report = "" /\ Len(summary.rows) > 0) =>
        /\ metrics.device["Desktop"].total + metrics.device["Mobile"].total
              + metrics.device["Both"].total = metrics.overall.total
        /\ metrics.device["Desktop"].automated + metrics.device["Mobile"].automated
              + metrics.device["Both"].automated = metrics.overall.total_automated
        /\ PivotSum(metrics.epic.pivot.rows, "TOTAL") = metrics.overall.total
        /\ PivotSum(metrics.epic.pivot.rows, "Automated") = metrics.overall.total_automated

\* two cases of two epics, one for Desktop with an unknown device code beside
\* it, one of them automated
C30_Witness ==
    /\ pc = "measured"
    /\ report = ""
    /\ Len(df.rows) = 2
    /\ "custom_devices" \in Range(df.columns)
    /\ df.rows[1]["custom_devices"] = IntVal(1)
    /\ df.rows[2]["custom_devices"] = IntVal(7)
    /\ metrics.device["Desktop"].total = 1
    /\ metrics.device["Both"].total = 1
    /\ metrics.overall.total = 2
    /\ metrics.overall.total_automated = 1
    /\ Len(metrics.epic.pivot.rows) = 2

====
